---------------------------- MODULE Spec2Model ----------------------------
(***************************************************************************)
(* Onesixteen assembler (osa.c): the lexer (get_next_char, get_next_token  *)
(* and its recognizers and evaluators) and the tree builder (get_ast and   *)
(* the node operations), as a state machine.                               *)
(*                                                                         *)
(* Characters are their ASCII codes, as the C code sees them (int).  A     *)
(* C string is the sequence of its characters before the terminator.      *)
(* A pointer to a node or a token is its index in the heap sequence it was *)
(* allocated in; NULL is 0.                                                *)
(***************************************************************************)
EXTENDS Integers, Sequences, FiniteSets, TLC

(***************************************************************************)
(* Bounds of the model and constants of the program.                       *)
(***************************************************************************)

\* Longest source file of the exhaustively enumerated inputs.
MaxLen == 3

\* stdio's EOF, what fgetc returns at end of file (is_eof compares with it).
EOF == -1

\* The null pointer.
NULL == 0

\* char lexeme[256] of struct token.
LexemeSize == 256

\* The value of top at which push_to_lexeme reports an overflow.
PushLimit == 256

\* The bytes the enumerated source files are made of:
\* space, newline, ':', single quote, ';', 'a', '1'.
Alphabet == {32, 10, 58, 39, 59, 97, 49}

(***************************************************************************)
(* Helpers: case conversion.                                               *)
(***************************************************************************)

tolowercase(c) == IF c >= 65 /\ c <= 90 THEN c + 32 ELSE c

touppercase(c) == IF c >= 97 /\ c <= 122 THEN c - 32 ELSE c

(***************************************************************************)
(* Atom recognizers and misc recognizers: predicates on one character.     *)
(***************************************************************************)

is_digit(c) == c >= 48 /\ c <= 57

is_bindigit(c) == c = 48 \/ c = 49

is_octdigit(c) == is_digit(c) /\ (c # 56 /\ c # 57)

is_decdigit(c) == is_digit(c)

\* A mutant of is_hexdigit: the letter o is a digit too.
is_hexdigit_o(c) ==
    IF is_digit(c) THEN TRUE
    ELSE \/ tolowercase(c) >= 97 /\ tolowercase(c) <= 102
         \/ tolowercase(c) = 111

is_hexdigit(c) ==
    IF is_digit(c) THEN TRUE
    ELSE tolowercase(c) >= 97 /\ tolowercase(c) <= 102

is_letter(c) == tolowercase(c) >= 97 /\ tolowercase(c) <= 122

is_visible_ascii_character(c) == c >= 32 /\ c <= 126

is_eos(c) == c = 0

is_eol(c) == c = 10

is_eof(c) == c = EOF

\* A mutant of is_binsym: d is a binary suffix too.
is_binsym_d(c) == tolowercase(c) = 98 \/ tolowercase(c) = 100

is_binsym(c) == tolowercase(c) = 98

is_octsym(c) == tolowercase(c) = 111

is_decsym(c) == tolowercase(c) = 100

is_hexsym(c) == tolowercase(c) = 104

is_comment_initor(c) == c = 59

is_underscore(c) == c = 95

is_sqmark(c) == c = 39

is_dqmark(c) == c = 34

\* A mutant of is_symbol: the comma is the symbol.
is_symbol_comma(c) == c = 44

is_symbol(c) == c = 58

\* A mutant of is_whitespace: the space is no whitespace.
is_whitespace_nospace(c) == c \in {9, 11, 13}

is_whitespace(c) == c \in {9, 11, 13, 32}

(***************************************************************************)
(* Strings.  s[i] of the C code, i counted from 0: the character, the      *)
(* terminator at i = strlen(s).  The recognizers below read one character  *)
(* beyond the terminator (c = s[i++] on entering state 0 or 1) and never   *)
(* look at it.                                                             *)
(***************************************************************************)

CharAt(s, i) == IF i < Len(s) THEN s[i + 1] ELSE 0

\* strlen: the number of characters before the first '\0'.
strlen(s) ==
    IF \E i \in 1..Len(s) : s[i] = 0
    THEN (CHOOSE i \in 1..Len(s) :
              s[i] = 0 /\ \A j \in 1..(i - 1) : s[j] # 0) - 1
    ELSE Len(s)

\* The C string an array of characters holds.
CStr(s) == SubSeq(s, 1, strlen(s))

dupstr(s) == CStr(s)

substr(s, len) == IF len = 0 THEN << >> ELSE SubSeq(s, 1, len)

is_terminal(terminal, token) == CStr(terminal) = CStr(token)

(***************************************************************************)
(* Low-level recognizers: each is a finite-state machine over the lexeme,  *)
(* state 2 the initial state, 1 valid, 0 invalid.  x_next(state, c) is one *)
(* turn of the recognizer's loop in a state 2, 3 or 4: the next state on   *)
(* the character c; in state 0 or 1 the loop ends.                         *)
(***************************************************************************)

is_id_next(state, c) ==
    CASE state = 2 -> IF is_letter(c) \/ is_underscore(c) THEN 3 ELSE 0
      [] state = 3 ->
            IF is_eos(c) THEN 1
            ELSE IF is_letter(c) \/ is_digit(c) \/ is_underscore(c) THEN 3
            ELSE 0
      [] OTHER -> state

is_bin_next(state, c) ==
    CASE state = 2 -> IF is_bindigit(c) THEN 3 ELSE 0
      [] state = 3 ->
            IF is_bindigit(c) THEN 3 ELSE IF is_binsym(c) THEN 4 ELSE 0
      [] state = 4 -> IF is_eos(c) THEN 1 ELSE 0
      [] OTHER -> state

is_oct_next(state, c) ==
    CASE state = 2 -> IF is_octdigit(c) THEN 3 ELSE 0
      [] state = 3 ->
            IF is_octdigit(c) THEN 3 ELSE IF is_octsym(c) THEN 4 ELSE 0
      [] state = 4 -> IF is_eos(c) THEN 1 ELSE 0
      [] OTHER -> state

\* A mutant of is_dec_next: the decimal symbol is not accepted.
is_dec_next_nosym(state, c) ==
    CASE state = 2 -> IF is_decdigit(c) THEN 3 ELSE 0
      [] state = 3 ->
            IF is_decdigit(c) THEN 3 ELSE IF is_eos(c) THEN 1 ELSE 0
      [] OTHER -> state

is_dec_next(state, c) ==
    CASE state = 2 -> IF is_decdigit(c) THEN 3 ELSE 0
      [] state = 3 ->
            IF is_decdigit(c) THEN 3
            ELSE IF is_decsym(c) THEN 4
            ELSE IF is_eos(c) THEN 1
            ELSE 0
      [] state = 4 -> IF is_eos(c) THEN 1 ELSE 0
      [] OTHER -> state

is_hex_next(state, c) ==
    CASE state = 2 -> IF is_hexdigit(c) THEN 3 ELSE 0
      [] state = 3 ->
            IF is_hexdigit(c) THEN 3 ELSE IF is_hexsym(c) THEN 4 ELSE 0
      [] state = 4 -> IF is_eos(c) THEN 1 ELSE 0
      [] OTHER -> state

\* A mutant of is_sqstr_next: the closing quotation mark is optional.
is_sqstr_next_open(state, c) ==
    CASE state = 2 -> IF is_sqmark(c) THEN 3 ELSE 0
      [] state = 3 ->
            IF is_visible_ascii_character(c) /\ c # 39 THEN 3
            ELSE IF is_sqmark(c) THEN 4
            ELSE IF is_eos(c) THEN 1
            ELSE 0
      [] state = 4 -> IF is_eos(c) THEN 1 ELSE 0
      [] OTHER -> state

is_sqstr_next(state, c) ==
    CASE state = 2 -> IF is_sqmark(c) THEN 3 ELSE 0
      [] state = 3 ->
            IF is_visible_ascii_character(c) /\ c # 39 THEN 3
            ELSE IF is_sqmark(c) THEN 4
            ELSE 0
      [] state = 4 -> IF is_eos(c) THEN 1 ELSE 0
      [] OTHER -> state

is_dqstr_next(state, c) ==
    CASE state = 2 -> IF is_dqmark(c) THEN 3 ELSE 0
      [] state = 3 ->
            IF is_visible_ascii_character(c) /\ c # 34 THEN 3
            ELSE IF is_dqmark(c) THEN 4
            ELSE 0
      [] state = 4 -> IF is_eos(c) THEN 1 ELSE 0
      [] OTHER -> state

\* One turn of the loop of the recognizer named.
Turn(recognizer, state, c) ==
    CASE recognizer = "is_id" -> is_id_next(state, c)
      [] recognizer = "is_bin" -> is_bin_next(state, c)
      [] recognizer = "is_oct" -> is_oct_next(state, c)
      [] recognizer = "is_dec" -> is_dec_next(state, c)
      [] recognizer = "is_hex" -> is_hex_next(state, c)
      [] recognizer = "is_sqstr" -> is_sqstr_next(state, c)
      [] recognizer = "is_dqstr" -> is_dqstr_next(state, c)

\* The one element of a set of one element.  {e(x) : x \in {v}} is e(v)
\* with v evaluated once, before e.
The(S) == CHOOSE x \in S : TRUE

\* The state the recognizer is in after the characters s[lo] .. s[hi], in
\* this order, from the state st.  (The range is halved, and the first half
\* evaluated before the second is entered, to keep the evaluation shallow.)
RECURSIVE RunFsm(_, _, _, _, _)
RunFsm(recognizer, s, lo, hi, st) ==
    IF lo > hi THEN st
    ELSE IF lo = hi THEN Turn(recognizer, st, CharAt(s, lo))
    ELSE LET mid == (lo + hi) \div 2
         IN  The({RunFsm(recognizer, s, mid + 1, hi, m) :
                     m \in {RunFsm(recognizer, s, lo, mid, st)}})

\* A recognizer's loop over s: it reads the characters of s and the
\* terminator, and has reached state 0 or 1 by then.
Accepts(recognizer, s) ==
    \E n \in {strlen(s)} : RunFsm(recognizer, s, 0, n, 2) = 1

is_id(s) == Accepts("is_id", s)

is_bin(s) == Accepts("is_bin", s)

is_oct(s) == Accepts("is_oct", s)

is_dec(s) == Accepts("is_dec", s)

is_hex(s) == Accepts("is_hex", s)

is_int(s) == is_bin(s) \/ is_oct(s) \/ is_dec(s) \/ is_hex(s)

is_sqstr(s) == Accepts("is_sqstr", s)

is_dqstr(s) == Accepts("is_dqstr", s)

(***************************************************************************)
(* Evaluators.  int is 32 bits wide, two's complement.                     *)
(***************************************************************************)

\* The digit alphabet "0123456789abcdef" of get_value.
DigitTable == <<48, 49, 50, 51, 52, 53, 54, 55, 56, 57,
                97, 98, 99, 100, 101, 102>>

\* A mutant of get_value: the table is searched for c as it is.
get_value_cased(c) ==
    IF \E i \in 1..Len(DigitTable) : c = DigitTable[i]
    THEN (CHOOSE i \in 1..Len(DigitTable) : c = DigitTable[i]) - 1
    ELSE -1

get_value(c) ==
    IF \E i \in 1..Len(DigitTable) : tolowercase(c) = DigitTable[i]
    THEN (CHOOSE i \in 1..Len(DigitTable) :
              /\ tolowercase(c) = DigitTable[i]
              /\ \A j \in 1..(i - 1) : tolowercase(c) # DigitTable[j]) - 1
    ELSE -1

\* 2^16.  An int is handled as two 16-bit halves: the arithmetic of eval
\* wraps around modulo 2^32, and is computed here on the halves.
Half == LexemeSize * LexemeSize

\* The int with the bit pattern hi * 2^16 + lo.
ToInt(hi, lo) ==
    IF hi >= Half \div 2 THEN (hi - Half) * Half + lo ELSE hi * Half + lo

Hi(x) == (x \div Half) % Half

Lo(x) == x % Half

\* a + b in int arithmetic.
AddInt(a, b) ==
    LET lo == Lo(a) + Lo(b)
        hi == Hi(a) + Hi(b) + (lo \div Half)
    IN  ToInt(hi % Half, lo % Half)

\* a * b in int arithmetic, for 0 <= b <= 16.
MulSmall(a, b) ==
    LET lo == Lo(a) * b
        hi == Hi(a) * b + (lo \div Half)
    IN  ToInt(hi % Half, lo % Half)

\* -a in int arithmetic.
NegInt(a) == AddInt(ToInt(Half - 1 - Hi(a), Half - 1 - Lo(a)), 1)

\* val * place, val what get_value returns: -1, or 0 .. 15.
MulDigit(val, place) ==
    IF val >= 0 THEN MulSmall(place, val) ELSE NegInt(place)

\* One turn of eval's loop on the digit c: acc is <<integer, place>>.
eval_turn(acc, c, base) ==
    <<AddInt(acc[1], MulDigit(get_value(c), acc[2])), MulSmall(acc[2], base)>>

\* The turns of eval's loop for i = hi down to lo.  (Halved as in RunFsm.)
RECURSIVE eval_loop(_, _, _, _, _)
eval_loop(s, lo, hi, acc, base) ==
    IF lo > hi THEN acc
    ELSE IF lo = hi THEN eval_turn(acc, CharAt(s, lo), base)
    ELSE LET mid == (lo + hi) \div 2
         IN  The({eval_loop(s, lo, mid, m, base) :
                     m \in {eval_loop(s, mid + 1, hi, acc, base)}})

\* eval on the string str of strlen(str) = n.
eval_digits(str, n, base) == eval_loop(str, 0, n - 1, <<0, 1>>, base)[1]

\* A mutant of eval: the first digit is taken as the least significant.
eval_reversed(s, base) ==
    The(UNION {{eval_digits([i \in 1..n |-> str[n + 1 - i]], n, base) :
                   n \in {strlen(str)}} : str \in {s}})

eval(s, base) ==
    The(UNION {{eval_digits(str, n, base) : n \in {strlen(str)}} :
                  str \in {s}})

\* p[strlen(p)-1] = '\0' on a copy of s.
DropLast(s) == SubSeq(dupstr(s), 1, strlen(s) - 1)

eval_bin(s) == eval(DropLast(s), 2)

eval_oct(s) == eval(DropLast(s), 8)

eval_dec(s) ==
    IF tolowercase(CharAt(s, strlen(s) - 1)) = 100
    THEN eval(DropLast(s), 10)
    ELSE eval(dupstr(s), 10)

eval_hex(s) == eval(DropLast(s), 16)

\* A mutant of eval_sqstr: the closing mark stays in the value.
eval_sqstr_closing(s) == substr(SubSeq(s, 2, Len(s)), strlen(s) - 1)

eval_sqstr(s) == substr(SubSeq(s, 2, Len(s)), strlen(s) - 2)

eval_dqstr(s) == eval_sqstr(s)

(***************************************************************************)
(* get_meaning.  The switch assigns the text to s and the function ends    *)
(* without a return statement: the value the caller uses is indeterminate. *)
(* The call happens to leave the result of dupstr, the last call made,     *)
(* where a result is returned, or it leaves something else.                *)
(***************************************************************************)

token_type ==
    {"t_id", "t_int", "t_colon", "t_squote", "t_dquote", "t_eol", "t_eof",
     "t_unknown"}

\* What the caller finds that is not the text.
Indeterminate == "(indeterminate)"

\* The s of get_meaning at the end of its switch, a copy of the text.
get_meaning_s(type) ==
    CASE type = "t_id" -> "identifier"
      [] type = "t_int" -> "integer"
      [] type = "t_colon" -> "colon"
      [] type = "t_squote" -> "string"
      [] type = "t_dquote" -> "string"
      [] type = "t_eol" -> "end-of-line"
      [] type = "t_eof" -> "end-of-input"
      [] type = "t_unknown" -> "unknown"

\* The values a call of get_meaning can give its caller.
get_meaning(type) == {get_meaning_s(type), Indeterminate}

(***************************************************************************)
(* The state of the program.                                               *)
(***************************************************************************)

VARIABLES
    src,        \* FILE *src: the bytes of the source file
    fpos,       \* the bytes fgetc has read from src
    input,      \* int input: the character the lexer looks at
    pc,         \* where main's work stands: "main", then get_ast's position
    failure,    \* the message fail() has ended the process with, or none
    next_state, \* get_next_token's next_state
    done,       \* get_next_token's done (TRUE also between two calls)
    token,      \* the struct token get_next_token fills
    tokens,     \* the tokens get_next_token has returned, in order
    nodes,      \* the struct node heap: nodes[n] is the node new_node made n-th
    rootn,      \* get_ast's rootn
    linen,      \* get_ast's linen
    tokenn,     \* get_ast's tokenn
    fate,       \* history: what the lexer did with each byte it consumed
    meaning,    \* the last call of get_meaning: its argument and what the
                \* caller got from it; << >> before the first call
    popped      \* the last call of pop_from_lexeme: the token before it, the
                \* character pushed before it if one was, and what the call
                \* left; << >> before the first call

vars == <<src, fpos, input, pc, failure, next_state, done, token, tokens,
          nodes, rootn, linen, tokenn, fate, meaning, popped>>

(***************************************************************************)
(* Operations for the token data structure.  A field of a struct that the  *)
(* program has not assigned yet is absent from the record.                 *)
(***************************************************************************)

new_token == [eol |-> FALSE, eof |-> FALSE]

flush_lexeme(p) == [top |-> 0, lexeme |-> << >>] @@ p

\* A mutant of push_to_lexeme: a full lexeme drops the character silently.
push_to_lexeme_truncate(p, c) ==
    IF p.top = PushLimit
    THEN [failed |-> FALSE, token |-> p]
    ELSE [failed |-> FALSE,
          token |-> [p EXCEPT !.lexeme = Append(@, c), !.top = @ + 1]]

\* lexeme[top++] = c; lexeme[top] = '\0'.  With top = LexemeSize - 1 on
\* entry the terminator goes to lexeme[LexemeSize], the byte after the
\* array, which is the first byte of the field top (struct token has no
\* padding there); top is LexemeSize then, its first byte is 0 in either
\* byte order, and the write changes nothing.
push_to_lexeme(p, c) ==
    IF p.top = PushLimit
    THEN [failed |-> TRUE, token |-> p]
    ELSE [failed |-> FALSE,
          token |-> [p EXCEPT !.lexeme = Append(@, c), !.top = @ + 1]]

\* The bytes a read before the first element of the lexeme array can find.
StrayBytes == {0, 255}

\* pop_from_lexeme: the results a call can have, each the token it leaves,
\* the character it returns and whether it failed.  The test is top == -1:
\* with top = 0 the call goes on, top becomes -1, and lexeme[-1], the byte
\* before the array (before the struct, lexeme its first member), is read
\* and set to '\0': what is read there is indeterminate.
pop_from_lexeme(p) ==
    IF p.top = -1
    THEN {[failed |-> TRUE, token |-> p, c |-> 0, below |-> FALSE]}
    ELSE IF p.top = 0
    THEN {[failed |-> FALSE, token |-> [p EXCEPT !.top = -1], c |-> b,
           below |-> TRUE] : b \in StrayBytes}
    ELSE {[failed |-> FALSE,
           token |-> [p EXCEPT !.top = @ - 1,
                               !.lexeme = SubSeq(@, 1, p.top - 1)],
           c |-> p.lexeme[p.top], below |-> FALSE]}

(***************************************************************************)
(* The lexer.  Its state is handled as one record, so that the same        *)
(* transitions serve the actions below and the scan of another file.       *)
(***************************************************************************)

Lexer ==
    [fpos |-> fpos, input |-> input, failure |-> failure,
     next_state |-> next_state, done |-> done, token |-> token,
     tokens |-> tokens, fate |-> fate]

\* The messages of the fail() calls, and no message: fail() was not called.
NoFailure == ""

ReadFailure == "Unable to read character from source file"

OverflowFailure == "Something went wrong. Overflow occurred on lexeme stack"

UnderflowFailure ==
    "Something went wrong. Underflow occurred on lexeme stack"

\* fail(): the message is printed and the process exits.
fail(L, message) == [L EXCEPT !.failure = message]

\* A mutant of get_next_char: after a failed read the byte is read again
\* before fail is called.
get_next_char_retry(file, L, err) ==
    IF err
    THEN IF L.fpos < Len(file)
         THEN fail([L EXCEPT !.input = file[L.fpos + 1], !.fpos = @ + 1],
                   ReadFailure)
         ELSE fail(L, ReadFailure)
    ELSE IF L.fpos < Len(file)
         THEN [L EXCEPT !.input = file[L.fpos + 1], !.fpos = @ + 1]
         ELSE [L EXCEPT !.input = EOF]

\* c = fgetc(src); if (ferror(src)) fail(...).  err: the read fails.
get_next_char(file, L, err) ==
    IF err THEN fail(L, ReadFailure)
    ELSE IF L.fpos < Len(file)
         THEN [L EXCEPT !.input = file[L.fpos + 1], !.fpos = @ + 1]
         ELSE [L EXCEPT !.input = EOF]

\* What became of a consumed byte: the number of the token it was pushed to,
\* or one of these.
Ignored == 0

TakenAsEol == -1

TokenNo(L) == Len(L.tokens) + 1

\* "capture input; get next input" of the transition table.
Capture(file, L, err, ns) ==
    LET r == push_to_lexeme(L.token, L.input) IN
    IF r.failed THEN fail(L, OverflowFailure)
    ELSE get_next_char(file,
             [L EXCEPT !.token = r.token, !.next_state = ns,
                       !.fate = Append(@, TokenNo(L))],
             err)

\* "ignore input; get next input".
Ignore(file, L, err, ns) ==
    get_next_char(file,
        [L EXCEPT !.next_state = ns, !.fate = Append(@, Ignored)], err)

\* "do nothing".
Goto(L, ns) == [L EXCEPT !.next_state = ns]

\* A mutant of fsm_S1: ';' is sent to S2 as a symbol is.
fsm_S1_semicolon(file, L, err) ==
    LET c == L.input IN
    IF is_whitespace(c) THEN Ignore(file, L, err, "S1")
    ELSE IF is_symbol(c) \/ is_comment_initor(c) THEN Goto(L, "S2")
    ELSE IF is_eol(c) THEN Goto(L, "S3")
    ELSE IF is_eof(c) THEN Goto(L, "S4")
    ELSE IF is_sqmark(c) THEN Goto(L, "S5")
    ELSE IF is_dqmark(c) THEN Goto(L, "S6")
    ELSE Goto(L, "S8")

fsm_S1(file, L, err) ==
    LET c == L.input IN
    IF is_whitespace(c) THEN Ignore(file, L, err, "S1")
    ELSE IF is_symbol(c) THEN Goto(L, "S2")
    ELSE IF is_eol(c) THEN Goto(L, "S3")
    ELSE IF is_eof(c) THEN Goto(L, "S4")
    ELSE IF is_sqmark(c) THEN Goto(L, "S5")
    ELSE IF is_dqmark(c) THEN Goto(L, "S6")
    ELSE IF is_comment_initor(c) THEN Goto(L, "S7")
    ELSE Goto(L, "S8")

fsm_S2(file, L, err) ==
    IF L.input = 58 THEN Capture(file, L, err, "S0") ELSE L

\* A mutant of fsm_S3: the end of line is captured into the lexeme too.
fsm_S3_capture(file, L, err) ==
    IF is_eol(L.input)
    THEN Capture(file, [L EXCEPT !.token.eol = TRUE], err, "S0")
    ELSE L

fsm_S3(file, L, err) ==
    IF is_eol(L.input)
    THEN get_next_char(file,
             [L EXCEPT !.token.eol = TRUE, !.next_state = "S0",
                       !.fate = Append(@, TakenAsEol)],
             err)
    ELSE L

\* A mutant of fsm_S4: the end of the input is met once, a NUL after it.
fsm_S4_consumed(file, L, err) ==
    IF is_eof(L.input)
    THEN [L EXCEPT !.token.eof = TRUE, !.next_state = "S0", !.input = 0]
    ELSE L

fsm_S4(file, L, err) ==
    IF is_eof(L.input)
    THEN get_next_char(file,
             [L EXCEPT !.token.eof = TRUE, !.next_state = "S0"], err)
    ELSE L

\* A mutant of fsm_S5: the opening mark is read over and not captured.
fsm_S5_dropmark(file, L, err) ==
    IF is_sqmark(L.input) THEN Ignore(file, L, err, "S5_1") ELSE L

fsm_S5(file, L, err) ==
    IF is_sqmark(L.input) THEN Capture(file, L, err, "S5_1") ELSE L

fsm_S5_1(file, L, err) ==
    LET c == L.input IN
    IF is_sqmark(c) THEN Capture(file, L, err, "S0")
    ELSE IF is_eol(c) THEN Goto(L, "S0")
    ELSE IF is_eof(c) THEN Goto(L, "S0")
    ELSE IF is_comment_initor(c) THEN Goto(L, "S0")
    ELSE Capture(file, L, err, "S5_1")

fsm_S6(file, L, err) ==
    IF is_dqmark(L.input) THEN Capture(file, L, err, "S6_1") ELSE L

fsm_S6_1(file, L, err) ==
    LET c == L.input IN
    IF is_dqmark(c) THEN Capture(file, L, err, "S0")
    ELSE IF is_eol(c) THEN Goto(L, "S0")
    ELSE IF is_eof(c) THEN Goto(L, "S0")
    ELSE IF is_comment_initor(c) THEN Goto(L, "S0")
    ELSE Capture(file, L, err, "S6_1")

\* A mutant of fsm_S7: the end of line is part of the comment.
fsm_S7_eatline(file, L, err) ==
    LET c == L.input IN
    IF is_eol(c) THEN Ignore(file, L, err, "S1")
    ELSE IF is_eof(c) THEN Goto(L, "S1")
    ELSE Ignore(file, L, err, "S7")

\* A mutant of fsm_S7: the end of input does not end a comment.
fsm_S7_openend(file, L, err) ==
    LET c == L.input IN
    IF is_eol(c) THEN Goto(L, "S1")
    ELSE IF is_eof(c) THEN Goto(L, "S7")
    ELSE Ignore(file, L, err, "S7")

fsm_S7(file, L, err) ==
    LET c == L.input IN
    IF is_eol(c) THEN Goto(L, "S1")
    ELSE IF is_eof(c) THEN Goto(L, "S1")
    ELSE Ignore(file, L, err, "S7")

\* A mutant of fsm_S8: the whitespace that ends a word is consumed.
fsm_S8_consume(file, L, err) ==
    LET c == L.input IN
    IF is_whitespace(c) THEN Ignore(file, L, err, "S0")
    ELSE IF is_symbol(c) THEN Goto(L, "S0")
    ELSE IF is_eol(c) THEN Goto(L, "S0")
    ELSE IF is_eof(c) THEN Goto(L, "S0")
    ELSE IF is_sqmark(c) THEN Goto(L, "S0")
    ELSE IF is_dqmark(c) THEN Goto(L, "S0")
    ELSE IF is_comment_initor(c) THEN Goto(L, "S0")
    ELSE Capture(file, L, err, "S8")

fsm_S8(file, L, err) ==
    LET c == L.input IN
    IF is_whitespace(c) THEN Goto(L, "S0")
    ELSE IF is_symbol(c) THEN Goto(L, "S0")
    ELSE IF is_eol(c) THEN Goto(L, "S0")
    ELSE IF is_eof(c) THEN Goto(L, "S0")
    ELSE IF is_sqmark(c) THEN Goto(L, "S0")
    ELSE IF is_dqmark(c) THEN Goto(L, "S0")
    ELSE IF is_comment_initor(c) THEN Goto(L, "S0")
    ELSE Capture(file, L, err, "S8")

\* The lexer proper: the type and the value of a finished token.
Classify(t) ==
    IF t.eol THEN [type |-> "t_eol"] @@ t
    ELSE IF t.eof THEN [type |-> "t_eof"] @@ t
    ELSE IF is_terminal(<<58>>, t.lexeme) THEN [type |-> "t_colon"] @@ t
    ELSE IF is_bin(t.lexeme)
         THEN [type |-> "t_int", intval |-> eval_bin(t.lexeme)] @@ t
    ELSE IF is_oct(t.lexeme)
         THEN [type |-> "t_int", intval |-> eval_oct(t.lexeme)] @@ t
    ELSE IF is_dec(t.lexeme)
         THEN [type |-> "t_int", intval |-> eval_dec(t.lexeme)] @@ t
    ELSE IF is_hex(t.lexeme)
         THEN [type |-> "t_int", intval |-> eval_hex(t.lexeme)] @@ t
    ELSE IF is_id(t.lexeme) THEN [type |-> "t_id"] @@ t
    ELSE IF is_sqstr(t.lexeme)
         THEN [type |-> "t_squote", strval |-> eval_sqstr(t.lexeme)] @@ t
    ELSE IF is_dqstr(t.lexeme)
         THEN [type |-> "t_dquote", strval |-> eval_dqstr(t.lexeme)] @@ t
    ELSE [type |-> "t_unknown"] @@ t

\* State 0 ends the loop, and get_next_token returns the token.
\* A mutant of fsm_S0: the token is classified at the end of the input
\* only.
fsm_S0_atend(L) ==
    The({[L EXCEPT !.done = TRUE, !.token = t, !.tokens = Append(@, t)] :
            t \in {IF L.input = EOF THEN Classify(L.token)
                   ELSE [type |-> "t_unknown"] @@ L.token}})

fsm_S0(L) ==
    The({[L EXCEPT !.done = TRUE, !.token = t, !.tokens = Append(@, t)] :
            t \in {Classify(L.token)}})

\* One turn of get_next_token's loop.
FsmStep(file, L, err) ==
    CASE L.next_state = "S1" -> fsm_S1(file, L, err)
      [] L.next_state = "S2" -> fsm_S2(file, L, err)
      [] L.next_state = "S3" -> fsm_S3(file, L, err)
      [] L.next_state = "S4" -> fsm_S4(file, L, err)
      [] L.next_state = "S5" -> fsm_S5(file, L, err)
      [] L.next_state = "S5_1" -> fsm_S5_1(file, L, err)
      [] L.next_state = "S6" -> fsm_S6(file, L, err)
      [] L.next_state = "S6_1" -> fsm_S6_1(file, L, err)
      [] L.next_state = "S7" -> fsm_S7(file, L, err)
      [] L.next_state = "S8" -> fsm_S8(file, L, err)
      [] L.next_state = "S0" -> fsm_S0(L)

\* get_next_token up to its loop: a new, flushed token, state 1.
get_next_token_entry(L) ==
    [L EXCEPT !.token = flush_lexeme(new_token), !.done = FALSE,
              !.next_state = "S1"]

(***************************************************************************)
(* Node and tree operations.  Each takes the node heap and returns the     *)
(* heap it leaves and the node it returns.                                 *)
(***************************************************************************)

\* What a local pointer of get_ast holds before its first assignment.
Unassigned == -1

new_node(heap) ==
    [heap |-> Append(heap, [data |-> NULL, sibling |-> NULL, subtree |-> NULL]),
     node |-> Len(heap) + 1]

new_tree(heap) == new_node(heap)

\* A mutant of add_sibling: the new node is made and never linked.
add_sibling_unlinked(heap, target) == new_node(heap)

add_sibling(heap, target) ==
    LET old == heap[target].sibling
        r == new_node(heap)
    IN  IF heap[target].sibling = NULL
        THEN [heap |-> [r.heap EXCEPT ![target].sibling = r.node],
              node |-> r.node]
        ELSE [heap |-> [r.heap EXCEPT ![target].sibling = r.node,
                                      ![r.node].sibling = old],
              node |-> r.node]

add_subtree(heap, target) ==
    LET old == heap[target].subtree
        r == new_node(heap)
    IN  IF heap[target].subtree = NULL
        THEN [heap |-> [r.heap EXCEPT ![target].subtree = r.node],
              node |-> r.node]
        ELSE [heap |-> [r.heap EXCEPT ![target].subtree = r.node,
                                      ![r.node].subtree = old],
              node |-> r.node]

tree_empty(heap, root) == heap[root].subtree = NULL

(***************************************************************************)
(* Tree builder: the nodes of the AST.                                     *)
(***************************************************************************)

SetData(r, p) == [heap |-> [r.heap EXCEPT ![r.node].data = p], node |-> r.node]

line_node(line_type, lineno) ==
    [node_type |-> "NT_LINE", line_type |-> line_type, lineno |-> lineno]

\* colno is never assigned (the statement p->colno; has no effect).
token_node(tok) == [node_type |-> "NT_TOKEN", token |-> tok]

eof_node == [node_type |-> "NT_EOF"]

ast_line(heap, parent, line_type, lineno) ==
    SetData(add_subtree(heap, parent), line_node(line_type, lineno))

ast_linesibl(heap, sister, line_type, lineno) ==
    SetData(add_sibling(heap, sister), line_node(line_type, lineno))

ast_token(heap, parent, tok, colno) ==
    SetData(add_subtree(heap, parent), token_node(tok))

ast_tokensibl(heap, sister, tok, colno) ==
    SetData(add_sibling(heap, sister), token_node(tok))

ast_eof(heap, parent) == SetData(add_subtree(heap, parent), eof_node)

\* A mutant of ast_eofsibl: the marker is made a child of the last line.
ast_eofsibl_child(heap, sister) == SetData(add_subtree(heap, sister), eof_node)

ast_eofsibl(heap, sister) == SetData(add_sibling(heap, sister), eof_node)

(***************************************************************************)
(* get_ast.  B is the builder's state: the heap, linen and tokenn.  t is   *)
(* the token get_next_token returned and tok the pointer to it.            *)
(***************************************************************************)

Builder == [heap |-> nodes, linen |-> linen, tokenn |-> tokenn]

\* A mutant of get_ast_first: the node of the first token is not kept in
\* tokenn.
get_ast_first_nocursor(B, root, t, tok) ==
    IF t.type = "t_eof"
    THEN LET r == ast_eof(B.heap, root)
         IN  [B EXCEPT !.heap = r.heap, !.linen = r.node]
    ELSE IF t.type = "t_eol"
    THEN LET r == ast_line(B.heap, root, "LT_UNDEFINED", 0)
         IN  [B EXCEPT !.heap = r.heap, !.linen = r.node]
    ELSE LET r == ast_line(B.heap, root, "LT_UNDEFINED", 0)
             q == ast_token(r.heap, r.node, tok, 0)
         IN  [heap |-> q.heap, linen |-> r.node, tokenn |-> B.tokenn]

\* A mutant of get_ast_first: a first EndOfLine is made a token of its line.
get_ast_first_eoltoken(B, root, t, tok) ==
    IF t.type = "t_eof"
    THEN LET r == ast_eof(B.heap, root)
         IN  [B EXCEPT !.heap = r.heap, !.linen = r.node]
    ELSE LET r == ast_line(B.heap, root, "LT_UNDEFINED", 0)
             q == ast_token(r.heap, r.node, tok, 0)
         IN  [heap |-> q.heap, linen |-> r.node, tokenn |-> q.node]

\* Handle first token.
get_ast_first(B, root, t, tok) ==
    IF t.type = "t_eof"
    THEN LET r == ast_eof(B.heap, root)
         IN  [B EXCEPT !.heap = r.heap, !.linen = r.node]
    ELSE IF t.type = "t_eol"
    THEN LET r == ast_line(B.heap, root, "LT_UNDEFINED", 0)
         IN  [B EXCEPT !.heap = r.heap, !.linen = r.node]
    ELSE LET r == ast_line(B.heap, root, "LT_UNDEFINED", 0)
             q == ast_token(r.heap, r.node, tok, 0)
         IN  [heap |-> q.heap, linen |-> r.node, tokenn |-> q.node]

\* A mutant of get_ast_loop: every token is made the subtree of its line.
get_ast_loop_alwayschild(B, t, tok) ==
    IF t.type = "t_eol"
    THEN LET r == ast_linesibl(B.heap, B.linen, "LT_UNDEFINED", 0)
         IN  [B EXCEPT !.heap = r.heap, !.linen = r.node]
    ELSE LET r == ast_token(B.heap, B.linen, tok, 0)
         IN  [B EXCEPT !.heap = r.heap, !.tokenn = r.node]

\* A mutant of get_ast_loop: tokenn stays on the first token node of a line.
get_ast_loop_stalecursor(B, t, tok) ==
    IF t.type = "t_eol"
    THEN LET r == ast_linesibl(B.heap, B.linen, "LT_UNDEFINED", 0)
         IN  [B EXCEPT !.heap = r.heap, !.linen = r.node]
    ELSE IF B.heap[B.linen].subtree = NULL
    THEN LET r == ast_token(B.heap, B.linen, tok, 0)
         IN  [B EXCEPT !.heap = r.heap, !.tokenn = r.node]
    ELSE LET r == ast_tokensibl(B.heap, B.tokenn, tok, 0)
         IN  [B EXCEPT !.heap = r.heap]

\* A mutant of get_ast_loop: a token the lexer did not recognize is dropped.
get_ast_loop_skipunknown(B, t, tok) ==
    IF t.type = "t_eol"
    THEN LET r == ast_linesibl(B.heap, B.linen, "LT_UNDEFINED", 0)
         IN  [B EXCEPT !.heap = r.heap, !.linen = r.node]
    ELSE IF t.type = "t_unknown" THEN B
    ELSE IF B.heap[B.linen].subtree = NULL
    THEN LET r == ast_token(B.heap, B.linen, tok, 0)
         IN  [B EXCEPT !.heap = r.heap, !.tokenn = r.node]
    ELSE LET r == ast_tokensibl(B.heap, B.tokenn, tok, 0)
         IN  [B EXCEPT !.heap = r.heap, !.tokenn = r.node]

\* Handle remaining tokens: the body of the loop.
get_ast_loop(B, t, tok) ==
    IF t.type = "t_eol"
    THEN LET r == ast_linesibl(B.heap, B.linen, "LT_UNDEFINED", 0)
         IN  [B EXCEPT !.heap = r.heap, !.linen = r.node]
    ELSE IF B.heap[B.linen].subtree = NULL
    THEN LET r == ast_token(B.heap, B.linen, tok, 0)
         IN  [B EXCEPT !.heap = r.heap, !.tokenn = r.node]
    ELSE LET r == ast_tokensibl(B.heap, B.tokenn, tok, 0)
         IN  [B EXCEPT !.heap = r.heap, !.tokenn = r.node]

\* After the loop: the EOF node.
get_ast_end(B) ==
    LET r == ast_eofsibl(B.heap, B.linen)
    IN  [B EXCEPT !.heap = r.heap, !.linen = r.node]

(***************************************************************************)
(* The source files of the model.                                          *)
(***************************************************************************)

\* mov r0, 5d\n
MovLine == <<109, 111, 118, 32, 114, 48, 44, 32, 53, 100, 10>>

\* "hi" : x\n
DqLine == <<34, 104, 105, 34, 32, 58, 32, 120, 10>>

\* "a;b\n'c
OpenQuotes == <<34, 97, 59, 98, 10, 39, 99>>

\* n times the letter a.
Run(n) == [i \in 1..n |-> 97]

\* A word of as many characters as the lexeme array has elements, one less,
\* one more; and the last as the body of a string.
LongWords ==
    {Run(LexemeSize - 1), Run(LexemeSize), Run(LexemeSize + 1),
     <<39>> \o Run(LexemeSize)}

\* Files with a NUL byte: in a word, and alone.
NulWords == {<<97, 0, 98, 10>>, <<0>>}

\* "' :"'"'
QuoteInQuote == <<34, 39, 32, 58, 34, 39, 34, 39>>

\* label: ; comment\n
LabelLine ==
    <<108, 97, 98, 101, 108, 58, 32, 59, 32, 99, 111, 109, 109, 101, 110,
      116, 10>>

\* a, b, c, d and e with a tab, a vertical tab, a carriage return, a double
\* and a single quotation mark between them, and a ';' after them.
EndersLine == <<97, 9, 98, 11, 99, 13, 100, 34, 101, 39, 102, 59>>

\* Two newlines, a:, two newlines, 1:
BlankLines == <<10, 10, 97, 58, 10, 10, 49, 58>>

Scenarios ==
    {MovLine, DqLine, OpenQuotes, QuoteInQuote, LabelLine, EndersLine,
     BlankLines}
        \cup LongWords \cup NulWords

Inputs == UNION {[1..n -> Alphabet] : n \in 0..MaxLen} \cup Scenarios

(***************************************************************************)
(* The state machine.                                                      *)
(***************************************************************************)

Init ==
    /\ src \in Inputs
    /\ fpos = 0
    /\ input = 0
    /\ pc = "main"
    /\ failure = NoFailure
    /\ next_state = "S0"
    /\ done = TRUE
    /\ token = << >>
    /\ tokens = << >>
    /\ nodes = << >>
    /\ rootn = Unassigned
    /\ linen = Unassigned
    /\ tokenn = Unassigned
    /\ fate = << >>
    /\ meaning = << >>
    /\ popped = << >>

\* The lexer's variables become those of L, L evaluated once.
SetLexer(L) ==
    \E M \in {L} :
        /\ fpos' = M.fpos
        /\ input' = M.input
        /\ failure' = M.failure
        /\ next_state' = M.next_state
        /\ done' = M.done
        /\ token' = M.token
        /\ tokens' = M.tokens
        /\ fate' = M.fate

SetBuilder(B) ==
    \E M \in {B} :
        /\ nodes' = M.heap
        /\ linen' = M.linen
        /\ tokenn' = M.tokenn

\* The process has not exited.
Running == failure = NoFailure

\* The outcomes of a read of the source file: it succeeds, it fails.
ReadErrors == BOOLEAN

\* init(), called by main: the first character for the lexer to start with.
init ==
    /\ pc = "main" /\ Running
    /\ \E err \in ReadErrors : SetLexer(get_next_char(src, Lexer, err))
    /\ pc' = "start"
    /\ UNCHANGED <<src, nodes, rootn, linen, tokenn, meaning, popped>>

\* get_ast up to the loop of its first get_next_token call.
get_ast_begin ==
    /\ pc = "start" /\ Running
    /\ LET r == new_tree(nodes) IN
        /\ nodes' = r.heap
        /\ rootn' = r.node
    /\ SetLexer(get_next_token_entry(Lexer))
    /\ pc' = "first"
    /\ UNCHANGED <<src, linen, tokenn, meaning, popped>>

Scanning == pc \in {"first", "loop"} /\ Running /\ ~done

builderVars ==
    <<src, pc, nodes, rootn, linen, tokenn, meaning, popped>>

\* The turns of get_next_token's loop, one action for each state.
S1 ==
    /\ Scanning
    /\ next_state = "S1"
    /\ \E err \in ReadErrors : SetLexer(fsm_S1(src, Lexer, err))
    /\ UNCHANGED builderVars

S2 ==
    /\ Scanning
    /\ next_state = "S2"
    /\ \E err \in ReadErrors : SetLexer(fsm_S2(src, Lexer, err))
    /\ UNCHANGED builderVars

S3 ==
    /\ Scanning
    /\ next_state = "S3"
    /\ \E err \in ReadErrors : SetLexer(fsm_S3(src, Lexer, err))
    /\ UNCHANGED builderVars

S4 ==
    /\ Scanning
    /\ next_state = "S4"
    /\ \E err \in ReadErrors : SetLexer(fsm_S4(src, Lexer, err))
    /\ UNCHANGED builderVars

S5 ==
    /\ Scanning
    /\ next_state = "S5"
    /\ \E err \in ReadErrors : SetLexer(fsm_S5(src, Lexer, err))
    /\ UNCHANGED builderVars

S5_1 ==
    /\ Scanning
    /\ next_state = "S5_1"
    /\ \E err \in ReadErrors : SetLexer(fsm_S5_1(src, Lexer, err))
    /\ UNCHANGED builderVars

S6 ==
    /\ Scanning
    /\ next_state = "S6"
    /\ \E err \in ReadErrors : SetLexer(fsm_S6(src, Lexer, err))
    /\ UNCHANGED builderVars

S6_1 ==
    /\ Scanning
    /\ next_state = "S6_1"
    /\ \E err \in ReadErrors : SetLexer(fsm_S6_1(src, Lexer, err))
    /\ UNCHANGED builderVars

S7 ==
    /\ Scanning
    /\ next_state = "S7"
    /\ \E err \in ReadErrors : SetLexer(fsm_S7(src, Lexer, err))
    /\ UNCHANGED builderVars

S8 ==
    /\ Scanning
    /\ next_state = "S8"
    /\ \E err \in ReadErrors : SetLexer(fsm_S8(src, Lexer, err))
    /\ UNCHANGED builderVars

\* State 0, and the return of the token.
S0 ==
    /\ Scanning
    /\ next_state = "S0"
    /\ SetLexer(fsm_S0(Lexer))
    /\ UNCHANGED builderVars

\* get_ast from the return of its first get_next_token call to the loop of
\* the second.
HandleFirstToken ==
    /\ pc = "first" /\ Running /\ done
    /\ SetBuilder(get_ast_first(Builder, rootn, token, Len(tokens)))
    /\ SetLexer(get_next_token_entry(Lexer))
    /\ pc' = "loop"
    /\ UNCHANGED <<src, rootn, meaning, popped>>

\* One turn of get_ast's loop, with the get_next_token call that ends it.
HandleRemainingToken ==
    /\ pc = "loop" /\ Running /\ done
    /\ token.type # "t_eof"
    /\ SetBuilder(get_ast_loop(Builder, token, Len(tokens)))
    /\ SetLexer(get_next_token_entry(Lexer))
    /\ UNCHANGED <<src, pc, rootn, meaning, popped>>

\* get_ast from the end of its loop to its return.
ReturnAst ==
    /\ pc = "loop" /\ Running /\ done
    /\ token.type = "t_eof"
    /\ SetBuilder(get_ast_end(Builder))
    /\ pc' = "returned"
    /\ UNCHANGED <<src, fpos, input, failure, next_state, done, token, tokens,
                   rootn, fate, meaning, popped>>

Next ==
    \/ init
    \/ get_ast_begin
    \/ S1 \/ S2 \/ S3 \/ S4 \/ S5 \/ S5_1 \/ S6 \/ S6_1 \/ S7 \/ S8 \/ S0
    \/ HandleFirstToken
    \/ HandleRemainingToken
    \/ ReturnAst

Spec == Init /\ [][Next]_vars

\* The scheduling of the program: it is sequential, and a step that can be
\* taken is taken.
FairSpec == Spec /\ WF_vars(Next)

\* A call of get_meaning on a token type, the tree returned, as dump_ast
\* calls it for the types of the tokens.
get_meaning_call ==
    /\ pc = "returned"
    /\ \E type \in token_type : \E text \in get_meaning(type) :
           meaning' = <<type, text>>
    /\ UNCHANGED <<src, fpos, input, pc, failure, next_state, done, token,
                   tokens, nodes, rootn, linen, tokenn, fate, popped>>

MeaningNext == Next \/ get_meaning_call

\* The characters pushed before a pop.
PushedChars == {97, 58}

\* A call of pop_from_lexeme on a token get_next_token returned, the tree
\* returned.
pop_from_lexeme_call ==
    /\ pc = "returned" /\ Running
    /\ \E k \in 1..Len(tokens) : \E r \in pop_from_lexeme(tokens[k]) :
           /\ popped' = [before |-> tokens[k], pushed |-> << >>, result |-> r]
           /\ failure' = IF r.failed THEN UnderflowFailure ELSE failure
    /\ UNCHANGED <<src, fpos, input, pc, next_state, done, token, tokens,
                   nodes, rootn, linen, tokenn, fate, meaning>>

\* A call of push_to_lexeme on such a token, its lexeme not full, and of
\* pop_from_lexeme after it.
push_pop_call ==
    /\ pc = "returned" /\ Running
    /\ \E k \in 1..Len(tokens) : \E c \in PushedChars :
           /\ ~push_to_lexeme(tokens[k], c).failed
           /\ \E r \in pop_from_lexeme(push_to_lexeme(tokens[k], c).token) :
                  /\ popped' =
                         [before |-> tokens[k], pushed |-> <<c>>, result |-> r]
                  /\ failure' = IF r.failed THEN UnderflowFailure ELSE failure
    /\ UNCHANGED <<src, fpos, input, pc, next_state, done, token, tokens,
                   nodes, rootn, linen, tokenn, fate, meaning>>

PopNext == Next \/ pop_from_lexeme_call \/ push_pop_call

\* The program, and pop_from_lexeme called after it.
PopSpec == Init /\ [][PopNext]_vars

\* The program, and get_meaning called after it.
MeaningSpec == Init /\ [][MeaningNext]_vars


(***************************************************************************)
(* Views of the state the properties below are stated with.                *)
(***************************************************************************)

\* The nodes from n on along the sibling links.
RECURSIVE Chain(_, _)
Chain(heap, n) ==
    IF n = NULL THEN << >> ELSE <<n>> \o Chain(heap, heap[n].sibling)

NodeType(n) == nodes[n].data.node_type

\* The children of the root, get_ast having made the root.
RootChain == Chain(nodes, nodes[rootn].subtree)

LineNodes == SelectSeq(RootChain, LAMBDA n : NodeType(n) = "NT_LINE")

EofNodes == SelectSeq(RootChain, LAMBDA n : NodeType(n) = "NT_EOF")

\* The token nodes of the line node n, and the tokens they point to.
TokenNodes(n) == Chain(nodes, nodes[n].subtree)

LineTokens(n) ==
    [i \in 1..Len(TokenNodes(n)) |-> nodes[TokenNodes(n)[i]].data.token]

IsTerminator(t) == t.type \in {"t_eol", "t_eof"}

EolsBefore(i) == Cardinality({j \in 1..(i - 1) : tokens[j].type = "t_eol"})

EolCount == EolsBefore(Len(tokens) + 1)

\* The value of a token: of an integer, of a string, none.
Value(t) ==
    IF t.type = "t_int" THEN <<t.intval>>
    ELSE IF t.type \in {"t_squote", "t_dquote"} THEN t.strval
    ELSE << >>

\* Type, lexeme and value of a token.
Sig(t) == <<t.type, t.lexeme, Value(t)>>

Returned == pc = "returned"

(***************************************************************************)
(* C1.  The scan of "mov r0, 5d\n".                                        *)
(***************************************************************************)

\* The tokens as the claim has them: the ',' a token of its own.
MovClaimed ==
    << <<"t_id", <<109, 111, 118>>, << >> >>,
       <<"t_id", <<114, 48>>, << >> >>,
       <<"t_unknown", <<44>>, << >> >>,
       <<"t_int", <<53, 100>>, <<5>> >>,
       <<"t_eol", << >>, << >> >> >>

\* The tokens of the code: state 8 captures the ',' with the identifier.
MovScanned ==
    << <<"t_id", <<109, 111, 118>>, << >> >>,
       <<"t_unknown", <<114, 48, 44>>, << >> >>,
       <<"t_int", <<53, 100>>, <<5>> >>,
       <<"t_eol", << >>, << >> >>,
       <<"t_eof", << >>, << >> >> >>

\* C1 as claimed: the scan of "mov r0, 5d\n" yields Identifier(mov),
\* Identifier(r0), Unrecognized(,), IntegerLiteral(5), EndOfLine.
C1_CommaSplitOff ==
    src = MovLine =>
        \A i \in 1..Len(tokens) : i <= 5 => Sig(tokens[i]) = MovClaimed[i]

\* C1 amended: the scan of "mov r0, 5d\n" yields Identifier(mov),
\* Unrecognized(r0,), IntegerLiteral(5), EndOfLine and then EndOfInput: the
\* ',' that follows the identifier is captured into its lexeme.
C1_CommaCaptured ==
    src = MovLine =>
        \A i \in 1..Len(tokens) : i <= 5 /\ Sig(tokens[i]) = MovScanned[i]

C1_Witness == src = MovLine /\ Returned /\ Len(tokens) = 5

(***************************************************************************)
(* C2 .. C5.  The tree get_ast returns.                                    *)
(***************************************************************************)

\* C2: for an input whose first token is EndOfInput the returned tree has no
\* line node and the root's child chain is exactly one end-of-input marker.
C2_EmptyProgramOneMarker ==
    (Returned /\ tokens[1].type = "t_eof") =>
        /\ Len(LineNodes) = 0
        /\ Len(RootChain) = 1
        /\ NodeType(RootChain[1]) = "NT_EOF"

\* The boundaries between consecutive line nodes.
LineBoundaries == IF Len(LineNodes) = 0 THEN 0 ELSE Len(LineNodes) - 1

\* C3: the number of EndOfLine tokens get_ast consumed is the number of
\* boundaries between consecutive line nodes of the tree it returns.
C3_EolsAreLineBoundaries == Returned => EolCount = LineBoundaries

\* The numbers of S in ascending order.
RECURSIVE Ascending(_)
Ascending(S) ==
    IF S = {} THEN << >>
    ELSE LET m == CHOOSE x \in S : \A y \in S : x <= y
         IN  <<m>> \o Ascending(S \ {m})

\* The non-terminator tokens scanned after the (k-1)-th EndOfLine token and
\* before the k-th, in scan order.
PhysicalLine(k) ==
    Ascending({i \in 1..Len(tokens) :
                  ~IsTerminator(tokens[i]) /\ EolsBefore(i) = k - 1})

\* C4: the token children of the k-th line node are the non-terminator
\* tokens scanned after the (k-1)-th EndOfLine token and before the k-th.
C4_LineNodeIsPhysicalLine ==
    Returned =>
        \A k \in 1..Len(LineNodes) : LineTokens(LineNodes[k]) = PhysicalLine(k)

\* C5: for an input whose first token is not EndOfInput the root's child
\* chain is one or more line nodes and then one end-of-input marker, the
\* last node of the chain.
C5_LinesThenOneMarker ==
    (Returned /\ tokens[1].type # "t_eof") =>
        /\ Len(RootChain) >= 2
        /\ \A i \in 1..(Len(RootChain) - 1) : NodeType(RootChain[i]) = "NT_LINE"
        /\ NodeType(RootChain[Len(RootChain)]) = "NT_EOF"
        /\ nodes[RootChain[Len(RootChain)]].sibling = NULL
        /\ nodes[RootChain[Len(RootChain)]].subtree = NULL

\* A tree of three line nodes, the first token an end of line.
C5_Witness ==
    /\ Returned
    /\ tokens[1].type = "t_eol"
    /\ Len(LineNodes) = 3
    /\ Len(EofNodes) = 1

(***************************************************************************)
(* C6.  Termination, and the end of input as the last token.               *)
(***************************************************************************)

\* The tokens that are EndOfInput tokens.
EofTokens == {i \in 1..Len(tokens) : tokens[i].type = "t_eof"}

\* The scan is aborted only on a read failure or on a lexeme beyond the
\* capacity of the buffer; an EndOfInput token is produced only when every
\* byte of the input is consumed, and only EndOfInput tokens follow it; the
\* tokens get_ast consumed end with an EndOfInput token, the only one when
\* a token that is not EndOfInput precedes it.
EndOfInputLast ==
    /\ ~Running => failure \in {ReadFailure, OverflowFailure}
    /\ failure = OverflowFailure => token.top = PushLimit
    /\ \A i \in EofTokens :
          /\ Len(fate) = Len(src)
          /\ fpos = Len(src)
          /\ \A j \in i..Len(tokens) : j \in EofTokens
    /\ Returned =>
          /\ Len(tokens) \in EofTokens
          /\ tokens[1].type # "t_eof" => EofTokens = {Len(tokens)}

\* C6: on a finite input every get_next_token call terminates and get_ast
\* terminates, unless a read fails or a lexeme exceeds the buffer, and the
\* tokens get_ast consumed end with an EndOfInput token produced when all
\* the bytes of the input are consumed, no other token after an EndOfInput.
C6_TerminatesAtEndOfInput ==
    /\ <>(Returned \/ ~Running)
    /\ [](~done => <>(done \/ ~Running))
    /\ []EndOfInputLast

\* get_ast has returned from an input of a comment that the end of input
\* ends, after a token and an end of line.
C6_Witness ==
    /\ Returned
    /\ Len(src) = MaxLen
    /\ src[MaxLen] = 59
    /\ Len(tokens) = 3
    /\ EofTokens = {3}

(***************************************************************************)
(* C7.  Whitespace and comments inserted into the input.                   *)
(***************************************************************************)

\* The lexer before init.
LexerAtStart ==
    [fpos |-> 0, input |-> 0, failure |-> NoFailure, next_state |-> "S0",
     done |-> TRUE, token |-> << >>, tokens |-> << >>, fate |-> << >>]

\* The turns of get_next_token's loop from L on, no read failing.
RECURSIVE get_next_token_loop(_, _)
get_next_token_loop(file, L) ==
    IF L.done \/ L.failure # NoFailure THEN L
    ELSE The({get_next_token_loop(file, M) : M \in {FsmStep(file, L, FALSE)}})

\* One get_next_token call.
get_next_token(file, L) == get_next_token_loop(file, get_next_token_entry(L))

\* Repeated get_next_token calls, to the first EndOfInput token.
RECURSIVE Scan(_, _)
Scan(file, L) ==
    The({IF M.failure # NoFailure \/ M.token.type = "t_eof"
         THEN M ELSE Scan(file, M) : M \in {get_next_token(file, L)}})

\* init, and then the scan of the file.
ScanFile(file) == Scan(file, get_next_char(file, LexerAtStart, FALSE))

\* Kinds, lexemes and values of the tokens of the file.
TokensOf(file) ==
    LET ts == ScanFile(file).tokens IN [i \in 1..Len(ts) |-> Sig(ts[i])]

\* Kinds, lexemes and values of the tokens get_next_token has returned, to
\* the first EndOfInput token.
ScannedTokens ==
    LET last == IF EofTokens = {} THEN Len(tokens)
                ELSE CHOOSE i \in EofTokens : \A j \in EofTokens : i <= j
    IN  [i \in 1..last |-> Sig(tokens[i])]

\* s with w inserted after its first p bytes.
Insert(s, p, w) == SubSeq(s, 1, p) \o w \o SubSeq(s, p + 1, Len(s))

\* Runs of whitespace characters, and comments.
WhitespaceRuns == {<<32>>, <<9>>, <<11, 13>>, <<32, 9, 32>>}

Comments == {<<59>>, <<59, 97>>, <<59, 32, 39, 59>>}

\* Byte p of src was captured into a token.
Captured(p) == p \in 1..Len(fate) /\ fate[p] >= 1

\* Token k is a quoted string: its lexeme begins with a quotation mark.
Quoted(k) == tokens[k].top > 0 /\ tokens[k].lexeme[1] \in {39, 34}

\* Token k is a quoted string without its closing quotation mark.
Unterminated(k) ==
    /\ Quoted(k)
    /\ \/ tokens[k].top = 1
       \/ tokens[k].lexeme[tokens[k].top] # tokens[k].lexeme[1]

\* The position after byte p of src lies between two bytes of one token.
InsideToken(p) ==
    /\ Captured(p)
    /\ Captured(p + 1)
    /\ fate[p] = fate[p + 1]

\* The position after byte p of src lies inside a quoted string: between
\* two of its bytes, or at the end of one that is not closed.
InsideQuoted(p) ==
    /\ Captured(p)
    /\ Quoted(fate[p])
    /\ InsideToken(p) \/ Unterminated(fate[p])

\* The position after byte p of src lies at the end of a quoted string that
\* is not closed.
AtOpenEnd(p) ==
    /\ Captured(p)
    /\ ~InsideToken(p)
    /\ Unterminated(fate[p])

\* The bytes of src after byte p, to the end of the line, are all ignored.
RestOfLineIgnored(p) ==
    \A j \in (p + 1)..Len(src) :
        (\A i \in (p + 1)..j : src[i] # 10) => fate[j] = Ignored

\* get_ast has returned, and src is one of the short inputs.
ScannedShort == Returned /\ src \notin LongWords

CapturedBy(k) == {p \in 1..Len(fate) : fate[p] = k}

\* The lexeme of token k is the bytes of src captured into it, all of them
\* and in their order, and top counts them.
WholeLexeme(k) ==
    LET P == CapturedBy(k)
        n == Cardinality(P)
    IN  /\ tokens[k].top = n
        /\ Len(tokens[k].lexeme) = n
        /\ P # {} =>
              LET a == CHOOSE x \in P : \A y \in P : x <= y
              IN  /\ P = a..(a + n - 1)
                  /\ tokens[k].lexeme = SubSeq(src, a, a + n - 1)

\* No token, returned or in the making, has captured more bytes than the
\* buffer holds; the scan aborted on a full buffer has not returned the
\* token; the tokens returned have their lexemes whole.
LexemeWithinCapacity ==
    /\ \A k \in 1..(Len(tokens) + 1) : Cardinality(CapturedBy(k)) <= PushLimit
    /\ failure = OverflowFailure =>
          /\ ~done
          /\ ~Returned
          /\ token.top = PushLimit
          /\ Cardinality(CapturedBy(Len(tokens) + 1)) = PushLimit
          /\ input # EOF
    /\ \A k \in 1..Len(tokens) : WholeLexeme(k)

\* C8: when the characters captured for one token exceed the capacity of
\* the lexeme buffer the scan aborts through fail before the token is
\* returned; no token returned has a truncated or wrapped lexeme, and
\* nothing is produced after the abort.
C8_OverflowAborts ==
    /\ []LexemeWithinCapacity
    /\ [][failure = OverflowFailure => UNCHANGED vars]_vars

\* The scan aborted on the character after a full buffer.
C8_Witness ==
    /\ failure = OverflowFailure
    /\ Len(src) = LexemeSize + 1
    /\ Len(fate) = PushLimit

(***************************************************************************)
(* C9.  Quoted strings without their closing quotation mark.               *)
(***************************************************************************)

\* The first byte of src captured into token k.
StartOf(k) == CHOOSE x \in CapturedBy(k) : \A y \in CapturedBy(k) : x <= y

\* After the quotation mark at a: the first byte that is the same mark, an
\* end of line or ';', or the position after the last byte of src.
StopAt(a) ==
    CHOOSE b \in (a + 1)..(Len(src) + 1) :
        /\ b <= Len(src) => src[b] \in {src[a], 10, 59}
        /\ \A j \in (a + 1)..(b - 1) : src[j] \notin {src[a], 10, 59}

\* Token k begins at a quotation mark of src and its body reaches an end of
\* line, ';' or the end of the input before the closing mark.
OpenString(k) ==
    /\ CapturedBy(k) # {}
    /\ src[StartOf(k)] \in {39, 34}
    /\ StopAt(StartOf(k)) <= Len(src) =>
          src[StopAt(StartOf(k))] # src[StartOf(k)]

\* What stopped the open string k is tokenized by the next call: an end of
\* line as EndOfLine, the end of the input as EndOfInput, ';' skipped with
\* its comment.
StopTokenized(k) ==
    LET b == StopAt(StartOf(k)) IN
    /\ b > Len(src) => tokens[k + 1].type = "t_eof"
    /\ (b <= Len(src) /\ src[b] = 10) =>
          /\ tokens[k + 1].type = "t_eol"
          /\ fate[b] = TakenAsEol
    /\ (b <= Len(src) /\ src[b] = 59) =>
          /\ fate[b] = Ignored
          /\ tokens[k + 1].type \in {"t_eol", "t_eof"}

\* C9: a quoted string whose body reaches an end of line, the end of the
\* input or ';' before the closing mark is returned as an Unrecognized
\* token, its lexeme the opening mark and the body, and what stopped it is
\* tokenized by the next call.
C9_OpenStringUnrecognized ==
    \A k \in 1..Len(tokens) :
        OpenString(k) =>
            /\ tokens[k].type = "t_unknown"
            /\ tokens[k].lexeme =
                   SubSeq(src, StartOf(k), StopAt(StartOf(k)) - 1)
            /\ k < Len(tokens) => StopTokenized(k)

\* Two open strings returned: one a ';' stopped, one the end of the input.
C9_Witness ==
    /\ Returned
    /\ src = OpenQuotes
    /\ OpenString(1) /\ src[StopAt(StartOf(1))] = 59
    /\ OpenString(3) /\ StopAt(StartOf(3)) = Len(src) + 1
    /\ Len(tokens) = 4

(***************************************************************************)
(* C10.  Unrecognized tokens in the tree.                                  *)
(***************************************************************************)

\* The tokens of the line nodes from the k-th on, in the order of the tree.
RECURSIVE TokensFrom(_)
TokensFrom(k) ==
    IF k > Len(LineNodes) THEN << >>
    ELSE LineTokens(LineNodes[k]) \o TokensFrom(k + 1)

\* The tokens that are neither EndOfLine nor EndOfInput, in scan order.
NonTerminators ==
    Ascending({i \in 1..Len(tokens) : ~IsTerminator(tokens[i])})

Unrecognized == {k \in 1..Len(tokens) : tokens[k].type = "t_unknown"}

\* Tokens i and i + 1 are consecutive token nodes of one line node.
Adjacent(i) ==
    \E n \in 1..Len(LineNodes) :
        \E j \in 1..(Len(LineTokens(LineNodes[n])) - 1) :
            /\ LineTokens(LineNodes[n])[j] = i
            /\ LineTokens(LineNodes[n])[j + 1] = i + 1

\* C10: an Unrecognized token does not stop the scan: the tree get_ast
\* returns has every token that is not a terminator as a token node, in scan
\* order, an Unrecognized token beside its neighbours on the line, and the
\* scan has gone on to the end of the input.
C10_UnrecognizedAttached ==
    Returned =>
        /\ TokensFrom(1) = NonTerminators
        /\ \A k \in Unrecognized :
              /\ (k > 1 /\ ~IsTerminator(tokens[k - 1])) => Adjacent(k - 1)
              /\ ~IsTerminator(tokens[k + 1]) => Adjacent(k)
        /\ Len(tokens) \in EofTokens
        /\ Len(fate) = Len(src)

\* A tree with an Unrecognized token between two other tokens of a line.
C10_Witness ==
    /\ Returned
    /\ \E k \in Unrecognized :
          /\ k > 1
          /\ Adjacent(k - 1)
          /\ Adjacent(k)
          /\ tokens[k - 1].type # "t_unknown"
          /\ tokens[k + 1].type # "t_unknown"

(***************************************************************************)
(* C11.  Flags and lexeme of a token.                                      *)
(***************************************************************************)

\* The token is an end of line, an end of input, or characters captured:
\* one of the three.
OneOfThree(t) ==
    \/ t.eol /\ ~t.eof /\ t.top = 0 /\ t.lexeme = << >>
    \/ ~t.eol /\ t.eof /\ t.top = 0 /\ t.lexeme = << >>
    \/ ~t.eol /\ ~t.eof /\ t.top > 0 /\ Len(t.lexeme) = t.top

\* C11: every token get_next_token returned has exactly one of: the
\* EndOfLine flag, the EndOfInput flag, a lexeme of one character or more;
\* and a token with a flag has an empty lexeme.
C11_FlagOrLexeme == \A k \in 1..Len(tokens) : OneOfThree(tokens[k])

\* Tokens of the three sorts returned.
C11_Witness ==
    /\ Returned
    /\ Len(tokens) = 3
    /\ tokens[1].top > 0
    /\ tokens[2].eol
    /\ tokens[3].eof

(***************************************************************************)
(* Source files of one word: the inputs of the classifier (state 0), its   *)
(* recognizers and its evaluators.                                         *)
(***************************************************************************)

\* Longest word of the exhaustively enumerated words.
MaxWord == 3

\* 0 1 7 9 a b d h o F
WordAlphabet == {48, 49, 55, 57, 97, 98, 100, 104, 111, 70}

\* n times the character c.
Repeat(c, n) == [i \in 1..n |-> c]

\* Numerals at the limits of int: 2^31 - 1 and 2^31 in each base, 2^32 - 1,
\* and 1 after more zeros than an int has bits.
LimitWords ==
    {<<50, 49, 52, 55, 52, 56, 51, 54, 52, 55>>, <<50, 49, 52, 55, 52, 56, 51, 54, 52, 56>>,
     <<55, 102, 102, 102, 102, 102, 102, 102, 104>>, <<56, 48, 48, 48, 48, 48, 48, 48, 72>>, <<102, 102, 102, 102, 102, 102, 102, 102, 104>>,
     <<49, 55, 55, 55, 55, 55, 55, 55, 55, 55, 55, 111>>, <<50, 48, 48, 48, 48, 48, 48, 48, 48, 48, 48, 111>>,
     Repeat(49, 31) \o <<98>>, Repeat(49, 32) \o <<66>>,
     Repeat(48, 33) \o <<49, 98>>, Repeat(48, 12) \o <<55, 100>>}

\* 101b beefh 101D 0Ah _1 a_b zh, and files of more than a word.
OtherWords ==
    {<<49, 48, 49, 98>>,
     <<98, 101, 101, 102, 104>>, <<49, 48, 49, 68>>, <<48, 65, 104>>, <<95, 49>>,
     <<97, 95, 98>>, <<122, 104>>, DqLine, OpenQuotes}

Words ==
    UNION {[1..n -> WordAlphabet] : n \in 1..MaxWord}
        \cup LimitWords \cup OtherWords

WordInit ==
    /\ src \in Words
    /\ fpos = 0
    /\ input = 0
    /\ pc = "main"
    /\ failure = NoFailure
    /\ next_state = "S0"
    /\ done = TRUE
    /\ token = << >>
    /\ tokens = << >>
    /\ nodes = << >>
    /\ rootn = Unassigned
    /\ linen = Unassigned
    /\ tokenn = Unassigned
    /\ fate = << >>
    /\ meaning = << >>
    /\ popped = << >>

\* The program on the files of one word.
WordSpec == WordInit /\ [][Next]_vars

(***************************************************************************)
(* The grammars of the numerals and of the identifier, and the value of a  *)
(* numeral, as the specification words them.                               *)
(***************************************************************************)

Digits == 48..57

Letters == (65..90) \cup (97..122)

HexDigits == Digits \cup (65..70) \cup (97..102)

\* Every character of s is one of D.
AllIn(s, D) == \A i \in 1..Len(s) : s[i] \in D

Front(s) == SubSeq(s, 1, Len(s) - 1)

Last(s) == s[Len(s)]

\* digits of the base, and the suffix letter of the base.
Suffixed(s, D, suffix) ==
    /\ Len(s) >= 2
    /\ AllIn(Front(s), D)
    /\ tolowercase(Last(s)) = suffix

BinShape(s) == Suffixed(s, {48, 49}, 98)

OctShape(s) == Suffixed(s, 48..55, 111)

DecShape(s) == (Len(s) >= 1 /\ AllIn(s, Digits)) \/ Suffixed(s, Digits, 100)

HexShape(s) == Suffixed(s, HexDigits, 104)

IdShape(s) ==
    /\ Len(s) >= 1
    /\ s[1] \in Letters \cup {95}
    /\ AllIn(s, Letters \cup Digits \cup {95})

\* The largest int.
MaxInt == (Half \div 2 - 1) * Half + (Half - 1)

\* The value of a digit: 0 .. 9, a .. f and A .. F as 10 .. 15.
DigitOf(c) == IF c \in Digits THEN c - 48 ELSE tolowercase(c) - 87

\* value = value * base + digit over digits[i ..], most significant digit
\* first, from acc = <<value>>; << >> when the value is above MaxInt.
RECURSIVE Horner(_, _, _, _)
Horner(digits, i, base, acc) ==
    IF i > Len(digits) \/ acc = << >> THEN acc
    ELSE The({Horner(digits, i + 1, base, a) :
                 a \in {IF acc[1] > (MaxInt - DigitOf(digits[i])) \div base
                        THEN << >>
                        ELSE <<acc[1] * base + DigitOf(digits[i])>>}})

\* <<the value of the digits in the base>>, or << >>: it is 2^31 or more.
Positional(digits, base) == Horner(digits, 1, base, <<0>>)

\* The digits of a numeral of the base: the numeral without its suffix.
DigitsOf(s, base) ==
    IF base = 10 /\ Last(s) \in Digits THEN s ELSE Front(s)

\* The tokens returned that are neither EndOfLine nor EndOfInput, and the
\* C string in the lexeme of one.
Lexemes == {k \in 1..Len(tokens) : ~tokens[k].eol /\ ~tokens[k].eof}

LexemeOf(k) == CStr(tokens[k].lexeme)

(***************************************************************************)
(* C12.  The first rule that matches classifies.                           *)
(***************************************************************************)

NumeralShape(s) == BinShape(s) \/ OctShape(s) \/ DecShape(s) \/ HexShape(s)

\* C12: a lexeme of the hexadecimal grammar and of the identifier grammar
\* is an IntegerLiteral with its base-16 value, never an Identifier; a
\* lexeme of the identifier grammar and of no numeral grammar is an
\* Identifier.
C12_HexBeforeIdentifier ==
    \A k \in Lexemes :
        /\ (HexShape(LexemeOf(k)) /\ IdShape(LexemeOf(k))) =>
              /\ tokens[k].type = "t_int"
              /\ <<tokens[k].intval>> = Positional(Front(LexemeOf(k)), 16)
        /\ (IdShape(LexemeOf(k)) /\ ~NumeralShape(LexemeOf(k))) =>
              tokens[k].type = "t_id"

(***************************************************************************)
(* C13.  The value of an integer literal.                                  *)
(***************************************************************************)

\* The numeral recognizers and their bases.
NumeralRules ==
    {<<"is_bin", 2>>, <<"is_oct", 8>>, <<"is_dec", 10>>, <<"is_hex", 16>>}

\* C13: the intval of a token whose lexeme is_bin, is_oct, is_dec or is_hex
\* accepts, and whose value is below 2^31, is the value of its digits in
\* base 2, 8, 10 or 16, most significant digit first, the suffix stripped.
C13_PositionalValue ==
    \A k \in Lexemes : \A r \in NumeralRules :
        (/\ Accepts(r[1], LexemeOf(k))
         /\ Positional(DigitsOf(LexemeOf(k), r[2]), r[2]) # << >>) =>
            /\ tokens[k].type = "t_int"
            /\ <<tokens[k].intval>> =
                   Positional(DigitsOf(LexemeOf(k), r[2]), r[2])

\* 101b is returned, with the value 5.
C13_Witness ==
    /\ Returned
    /\ src = <<49, 48, 49, 98>>
    /\ tokens[1].type = "t_int"
    /\ tokens[1].intval = 5

(***************************************************************************)
(* C14.  Evaluating and formatting back.                                   *)
(***************************************************************************)

\* The digit of the value d < 16, of the alphabet 0123456789abcdef.
DigitChar(d) == IF d < 10 THEN 48 + d ELSE 87 + d

\* The digits of v in the base, most significant first, none to spare.
RECURSIVE format(_, _)
format(base, v) ==
    IF v < base THEN <<DigitChar(v)>>
    ELSE format(base, v \div base) \o <<DigitChar(v % base)>>

\* The digits d without their leading zeros, letters in lower case.
Canonical(d) ==
    LET nz == {i \in 1..Len(d) : d[i] # 48}
        first == IF nz = {} THEN Len(d)
                 ELSE CHOOSE i \in nz : \A j \in nz : i <= j
    IN  [i \in 1..(Len(d) - first + 1) |-> tolowercase(d[first + i - 1])]

\* The base of the integer token k is b.
InBase(k, b) ==
    /\ k \in Lexemes
    /\ tokens[k].type = "t_int"
    /\ \E r \in NumeralRules : r[2] = b /\ Accepts(r[1], LexemeOf(k))

Bases == {2, 8, 10, 16}

\* C14 as claimed: the value of an accepted integer lexeme, formatted in the
\* base of the lexeme, with the suffix of the lexeme in lower case after
\* it, is the lexeme with its suffix in lower case: the digits formatted
\* are the digits of the lexeme.
C14_RoundTrip ==
    \A k \in 1..Len(tokens) : \A b \in Bases :
        InBase(k, b) =>
            /\ tokens[k].intval >= 0
            /\ format(b, tokens[k].intval) = DigitsOf(LexemeOf(k), b)

\* C14 amended: the value of an accepted integer lexeme below 2^31,
\* formatted in the base of the lexeme, is the digits of the lexeme without
\* their leading zeros and with their letters in lower case.
C14_RoundTripCanonical ==
    \A k \in 1..Len(tokens) : \A b \in Bases :
        (InBase(k, b) /\ Positional(DigitsOf(LexemeOf(k), b), b) # << >>) =>
            /\ tokens[k].intval >= 0
            /\ format(b, tokens[k].intval) =
                   Canonical(DigitsOf(LexemeOf(k), b))

\* 0Ah is returned: its value 10 is formatted as a.
C14_Witness ==
    /\ Returned
    /\ src = <<48, 65, 104>>
    /\ InBase(1, 16)
    /\ format(16, tokens[1].intval) = <<97>>

(***************************************************************************)
(* C15.  Quoted strings.                                                   *)
(***************************************************************************)

\* Token k begins at a quotation mark of src, and after printable characters
\* only the same mark follows.
ClosedString(k) ==
    /\ CapturedBy(k) # {}
    /\ src[StartOf(k)] \in {39, 34}
    /\ StopAt(StartOf(k)) <= Len(src)
    /\ src[StopAt(StartOf(k))] = src[StartOf(k)]
    /\ \A j \in (StartOf(k) + 1)..(StopAt(StartOf(k)) - 1) :
           src[j] \in 32..126

\* C15: a quotation mark, printable characters other than that mark and
\* ';', and the same mark are one token, a t_squote or a t_dquote by the
\* mark; its lexeme is the fragment and its strval the characters between
\* the marks, as they are.
C15_QuotedStringValue ==
    \A k \in 1..Len(tokens) :
        ClosedString(k) =>
            LET a == StartOf(k)
                b == StopAt(StartOf(k))
            IN  /\ CapturedBy(k) = a..b
                /\ tokens[k].type =
                       (IF src[a] = 39 THEN "t_squote" ELSE "t_dquote")
                /\ tokens[k].lexeme = SubSeq(src, a, b)
                /\ tokens[k].strval = SubSeq(src, a + 1, b - 1)

\* Both kinds returned, the other mark in the body of each.
C15_Witness ==
    /\ Returned
    /\ src = QuoteInQuote
    /\ ClosedString(1) /\ tokens[1].strval = <<39, 32, 58>>
    /\ ClosedString(2) /\ tokens[2].strval = <<34>>

(***************************************************************************)
(* C16.  Decimal digits without a suffix.                                  *)
(***************************************************************************)

\* The lexeme of token k is decimal digits and nothing else.
DigitsOnly(k) ==
    /\ k \in Lexemes
    /\ LexemeOf(k) # << >>
    /\ AllIn(LexemeOf(k), Digits)

\* C16: a lexeme of decimal digits and no suffix is an IntegerLiteral, its
\* value that of its digits in base 10; with d or D after them the digits
\* have the same value; is_bin, is_oct and is_hex do not accept it.
C16_DigitsAreDecimal ==
    \A k \in 1..Len(tokens) :
        DigitsOnly(k) =>
            /\ tokens[k].type = "t_int"
            /\ <<tokens[k].intval>> = Positional(LexemeOf(k), 10)
            /\ \A suffix \in {100, 68} :
                   /\ is_dec(LexemeOf(k) \o <<suffix>>)
                   /\ eval_dec(LexemeOf(k) \o <<suffix>>) = tokens[k].intval
            /\ ~is_bin(LexemeOf(k))
            /\ ~is_oct(LexemeOf(k))
            /\ ~is_hex(LexemeOf(k))

(***************************************************************************)
(* C17.  Comments and the colon.                                           *)
(***************************************************************************)

\* The tokens of "label: ; comment\n", and the EndOfInput that ends them.
LabelClaimed ==
    << <<"t_id", <<108, 97, 98, 101, 108>>, << >> >>,
       <<"t_colon", <<58>>, << >> >>,
       <<"t_eol", << >>, << >> >>,
       <<"t_eof", << >>, << >> >> >>

\* Byte p of src lies in a comment: a ';' before it on its line, or it is
\* one.
InComment(p) ==
    \E q \in 1..p : src[q] = 59 /\ \A i \in q..p : src[i] # 10

\* Byte p of src was captured into a token that a quotation mark begins.
InString(p) ==
    /\ Captured(p)
    /\ CapturedBy(fate[p]) # {}
    /\ src[StartOf(fate[p])] \in {39, 34}

\* C17: the bytes from a ';' to the end of its line are captured into no
\* token, and a token that is no terminator has for lexeme the bytes
\* captured into it; a ':' outside comments and quoted strings is a token of its own,
\* a t_colon with the lexeme ":"; and "label: ; comment\n" is scanned as
\* Identifier(label), Colon, EndOfLine.
C17_CommentsAndColons ==
    /\ \A p \in 1..Len(fate) : InComment(p) => fate[p] = Ignored
    /\ \A k \in Lexemes : CapturedBy(k) # {} /\ WholeLexeme(k)
    /\ \A p \in 1..Len(fate) :
           (src[p] = 58 /\ ~InComment(p) /\ ~InString(p)) =>
               /\ Captured(p)
               /\ CapturedBy(fate[p]) = {p}
               /\ fate[p] <= Len(tokens) =>
                      Sig(tokens[fate[p]]) = <<"t_colon", <<58>>, << >> >>
    /\ (Returned /\ src = LabelLine) =>
           [k \in 1..Len(tokens) |-> Sig(tokens[k])] = LabelClaimed

\* "label: ; comment\n" is scanned: the ':' is the second token, and the
\* comment is read to its end and ignored.
C17_Witness ==
    /\ Returned
    /\ src = LabelLine
    /\ tokens[2].type = "t_colon"
    /\ fate[6] = 2
    /\ InComment(16) /\ fate[16] = Ignored

(***************************************************************************)
(* C18.  Terminators are no token nodes.                                   *)
(***************************************************************************)

\* The nodes made so far, the root aside.
Made == 1..Len(nodes) \ {rootn}

\* The token the token node n wraps.
Wrapped(n) == tokens[nodes[n].data.token]

\* C18: in every state of get_ast, a token node wraps a token that is
\* neither EndOfLine nor EndOfInput, and the children of a line node are
\* such token nodes.
C18_NoTerminatorTokenNode ==
    /\ \A n \in Made :
           NodeType(n) = "NT_TOKEN" => ~IsTerminator(Wrapped(n))
    /\ \A n \in Made :
           NodeType(n) = "NT_LINE" =>
               \A i \in 1..Len(TokenNodes(n)) :
                   /\ NodeType(TokenNodes(n)[i]) = "NT_TOKEN"
                   /\ ~IsTerminator(Wrapped(TokenNodes(n)[i]))

\* get_ast is in its loop: an EndOfLine was returned after a line with a
\* token node, and a line node made for it.
C18_Witness ==
    /\ pc = "loop"
    /\ Len(tokens) >= 2
    /\ tokens[Len(tokens)].type = "t_eol"
    /\ Len(LineNodes) >= 2
    /\ Len(TokenNodes(LineNodes[1])) >= 1

(***************************************************************************)
(* C19.  The classification depends on the token alone.                    *)
(***************************************************************************)

\* What S0 reads of the token t: the flags and the lexeme.
Unclassified(t) ==
    [eol |-> t.eol, eof |-> t.eof, top |-> t.top, lexeme |-> t.lexeme]

\* The tokens j and k have the same flags and the same lexeme.
SameText(j, k) ==
    /\ tokens[j].eol = tokens[k].eol
    /\ tokens[j].eof = tokens[k].eof
    /\ CStr(tokens[j].lexeme) = CStr(tokens[k].lexeme)

\* C19: two tokens with the same flags and the same lexeme have the same
\* type and the same value, whatever was scanned before them and whatever
\* character followed them; and a token classified once more, from its
\* flags and its lexeme or as it is, is the same token.
C19_ClassifierPure ==
    /\ \A j, k \in 1..Len(tokens) :
           SameText(j, k) =>
               /\ tokens[j].type = tokens[k].type
               /\ Value(tokens[j]) = Value(tokens[k])
    /\ \A k \in 1..Len(tokens) :
           /\ Classify(Unclassified(tokens[k])) = tokens[k]
           /\ Classify(tokens[k]) = tokens[k]

\* 1:1 is scanned: the first 1 was classified before a ':', the second at
\* the end of the input, after two tokens.
C19_Witness ==
    /\ Returned
    /\ src = <<49, 58, 49>>
    /\ SameText(1, 3)
    /\ tokens[1].type = "t_int"
    /\ tokens[3].intval = 1

(***************************************************************************)
(* C20.  A read of the source file fails.                                  *)
(***************************************************************************)

\* fail was called for a read of the source file.
ReadFailed == failure = ReadFailure

\* The step in which the read fails: no byte is read by it, the token in
\* the making is not returned, and get_ast does not return.
FailingRead ==
    (~ReadFailed /\ ReadFailed') =>
        /\ fpos' = fpos
        /\ tokens' = tokens
        /\ done' = done
        /\ nodes' = nodes
        /\ pc' # "returned"

\* C20: a read that fails reads no byte and returns no token; after it no
\* step is taken: no byte is read, no token and no tree is returned.
C20_ReadFailureStops ==
    /\ [][FailingRead /\ (ReadFailed => UNCHANGED vars)]_vars
    /\ [](ReadFailed => ~Returned)

\* A read has failed after a token was returned, bytes of src not yet read.
C20_Witness ==
    /\ ReadFailed
    /\ Len(tokens) >= 1
    /\ fpos < Len(src)

(***************************************************************************)
(* C21.  The text of a token type.                                         *)
(***************************************************************************)

\* The text of each token type, as claimed.
Diagnostic ==
    [t \in token_type |->
        CASE t = "t_id" -> "identifier"
          [] t = "t_int" -> "integer"
          [] t = "t_colon" -> "colon"
          [] t \in {"t_squote", "t_dquote"} -> "string"
          [] t = "t_eol" -> "end-of-line"
          [] t = "t_eof" -> "end-of-input"
          [] t = "t_unknown" -> "unknown"]

\* C21: what a call of get_meaning gives its caller is the text of the
\* token type: identifier, integer, colon, string for both kinds of string,
\* end-of-line, end-of-input, unknown.
C21_MeaningReturned ==
    meaning # << >> => meaning[2] = Diagnostic[meaning[1]]

(***************************************************************************)
(* C22.  The sign of intval.                                               *)
(***************************************************************************)

\* C22: the intval of every IntegerLiteral token is not negative, int a
\* 32-bit two's-complement integer.
C22_IntvalNonNegative ==
    \A k \in 1..Len(tokens) :
        tokens[k].type = "t_int" => tokens[k].intval >= 0

(***************************************************************************)
(* C23.  get_next_token after the end of the input.                        *)
(***************************************************************************)

\* The token L holds is an EndOfInput token with an empty lexeme, returned
\* by a call that ended.
EndOfInputReturned(L) ==
    /\ L.done
    /\ L.failure = NoFailure
    /\ L.token.eof /\ ~L.token.eol
    /\ L.token.type = "t_eof"
    /\ L.token.top = 0 /\ L.token.lexeme = << >>

\* get_next_token has returned an EndOfInput token.
AtEndOfInput == Running /\ done /\ tokens # << >> /\ token.type = "t_eof"

\* C23: after an EndOfInput token the next call of get_next_token and the
\* call after it end and return an EndOfInput token with an empty lexeme;
\* so is each token returned after an EndOfInput token.
C23_EndOfInputAgain ==
    /\ AtEndOfInput =>
           /\ EndOfInputReturned(get_next_token(src, Lexer))
           /\ EndOfInputReturned(
                  get_next_token(src, get_next_token(src, Lexer)))
    /\ \A j, k \in 1..Len(tokens) :
           (j < k /\ tokens[j].type = "t_eof") =>
               /\ tokens[k].type = "t_eof"
               /\ tokens[k].top = 0 /\ tokens[k].lexeme = << >>

\* get_ast has called get_next_token after the EndOfInput token of a file
\* without tokens: two EndOfInput tokens are returned.
C23_Witness ==
    /\ AtEndOfInput
    /\ Len(tokens) = 2
    /\ tokens[1].type = "t_eof"
    /\ tokens[2].type = "t_eof"

(***************************************************************************)
(* C24.  The order of the tokens in the tree.                              *)
(***************************************************************************)

\* The token nodes of the heap.
AllTokenNodes == {n \in Made : NodeType(n) = "NT_TOKEN"}

\* The token nodes of the line nodes, over all lines.
ChainedTokenNodes ==
    UNION {{TokenNodes(LineNodes[k])[i] :
               i \in 1..Len(TokenNodes(LineNodes[k]))} :
           k \in 1..Len(LineNodes)}

\* C24: the line nodes in sibling order, and in each its token nodes in
\* sibling order, give the tokens returned that are no terminators, in scan
\* order, each once: one token node was made for each, and each is on the
\* chain of a line.
C24_TokenOrderPreserved ==
    Returned =>
        /\ TokensFrom(1) = NonTerminators
        /\ Cardinality(AllTokenNodes) = Len(NonTerminators)
        /\ ChainedTokenNodes = AllTokenNodes

\* A tree of three tokens on its first line.
C24_Witness ==
    /\ Returned
    /\ Len(LineNodes) >= 1
    /\ LineTokens(LineNodes[1]) = <<1, 2, 3>>

(***************************************************************************)
(* C25.  The indices push_to_lexeme writes at.                             *)
(***************************************************************************)

\* get_next_token has been called: token is the struct token of the last
\* call.
TokenMade == pc \in {"first", "loop", "returned"}

\* The index of the terminator push_to_lexeme or flush_lexeme wrote last:
\* lexeme[top] = '\0'.  The character pushed before it went to top - 1.
TerminatorIndex == token.top

\* C25: the indices push_to_lexeme writes at, of the character pushed and of
\* the terminator after it, are indices of the lexeme array, 0 to 255.
C25_PushWithinArray ==
    TokenMade =>
        /\ TerminatorIndex \in 0..(LexemeSize - 1)
        /\ TerminatorIndex > 0 => TerminatorIndex - 1 \in 0..(LexemeSize - 1)

(***************************************************************************)
(* C26.  One EndOfLine token for each newline.                             *)
(***************************************************************************)

\* The newline bytes of src.
Newlines == {p \in 1..Len(src) : src[p] = 10}

\* The first EndOfInput token returned.
FirstEof == CHOOSE i \in EofTokens : \A j \in EofTokens : i <= j

\* Byte p of src is a newline that ends a comment or a quoted string that
\* is not closed.
EndsCommentOrString(p) ==
    /\ p \in Newlines
    /\ p > 1
    /\ InComment(p - 1) \/ (Captured(p - 1) /\ AtOpenEnd(p - 1))

\* C26: a newline read is consumed as the end of line of an EndOfLine token
\* and no other byte is, a newline that ends a comment or an unclosed string
\* too; the scan over, the EndOfLine tokens before the EndOfInput token are
\* as many as the newline bytes of the input.
C26_EolPerNewline ==
    /\ \A p \in 1..Len(fate) : (p \in Newlines) <=> (fate[p] = TakenAsEol)
    /\ \A p \in 1..Len(fate) :
           EndsCommentOrString(p) => fate[p] = TakenAsEol
    /\ Returned =>
           /\ EolsBefore(FirstEof) = Cardinality(Newlines)
           /\ EolCount = Cardinality(Newlines)

\* "a;b and a newline, then 'c: the newline ends the comment ;b and is the
\* one EndOfLine token.
C26_Witness ==
    /\ Returned
    /\ src = OpenQuotes
    /\ EndsCommentOrString(5)
    /\ EolCount = 1
    /\ tokens[2].type = "t_eol"

(***************************************************************************)
(* C27.  The builder appends.                                              *)
(***************************************************************************)

\* A link of a node that is set stays as it is.
LinksKept ==
    \A n \in 1..Len(nodes) :
        /\ nodes[n].sibling # NULL => nodes'[n].sibling = nodes[n].sibling
        /\ nodes[n].subtree # NULL => nodes'[n].subtree = nodes[n].subtree

\* A link of a node leads to a node made after it: no new node was given
\* the old sibling or the old subtree of its target.
LinksForward ==
    \A n \in 1..Len(nodes) :
        /\ nodes[n].sibling # NULL => nodes[n].sibling \in (n + 1)..Len(nodes)
        /\ nodes[n].subtree # NULL => nodes[n].subtree \in (n + 1)..Len(nodes)

\* C27: add_sibling and add_subtree are called on nodes whose sibling and
\* subtree link is empty: no step changes a link that is set, and no node
\* is linked to a node older than itself.
C27_BuilderAppends == [][LinksKept]_vars /\ []LinksForward

\* A tree of two lines and two tokens on the first: every ast_ operation
\* but ast_eof was called.
C27_Witness ==
    /\ Returned
    /\ Len(LineNodes) >= 2
    /\ Len(TokenNodes(LineNodes[1])) >= 2

(***************************************************************************)
(* C28.  The shape of the tree.                                            *)
(***************************************************************************)

\* The tree has its root.
TreeMade == pc \in {"first", "loop", "returned"}

\* The elements of the sequence q.
Range(q) == {q[i] : i \in 1..Len(q)}

\* The links that lead to node n: the nodes whose sibling, and the nodes
\* whose subtree, it is.
LinksTo(n) ==
    {<<m, "sibling">> : m \in {x \in 1..Len(nodes) : nodes[x].sibling = n}}
        \cup
    {<<m, "subtree">> : m \in {x \in 1..Len(nodes) : nodes[x].subtree = n}}

\* The line nodes that have n on the chain of their subtree.
LinesOf(n) ==
    {k \in 1..Len(LineNodes) : n \in Range(TokenNodes(LineNodes[k]))}

\* C28: below the root the tree has two levels: the line nodes and the end
\* markers are the nodes of the sibling chain of the root's subtree; every
\* token node is on the chain of one line node; token nodes and end markers
\* have no subtree; and one link leads to every node but the root, to which
\* none leads.
C28_TwoLevels ==
    TreeMade =>
        /\ Range(RootChain) =
               {n \in Made : NodeType(n) \in {"NT_LINE", "NT_EOF"}}
        /\ Cardinality(Range(RootChain)) = Len(RootChain)
        /\ \A n \in Made :
               NodeType(n) = "NT_TOKEN" => Cardinality(LinesOf(n)) = 1
        /\ \A n \in Made :
               NodeType(n) \in {"NT_TOKEN", "NT_EOF"} =>
                   nodes[n].subtree = NULL
        /\ \A k \in 1..Len(LineNodes) :
               Cardinality(Range(TokenNodes(LineNodes[k]))) =
                   Len(TokenNodes(LineNodes[k]))
        /\ \A n \in Made : Cardinality(LinksTo(n)) = 1
        /\ LinksTo(rootn) = {}
        /\ nodes[rootn].sibling = NULL

\* A tree of two lines with a token node each, and the end marker.
C28_Witness ==
    /\ Returned
    /\ Len(LineNodes) = 2
    /\ LineTokens(LineNodes[1]) = <<1>>
    /\ LineTokens(LineNodes[2]) = <<3>>
    /\ Len(EofNodes) = 1

(***************************************************************************)
(* C29.  The tokens of the generic capture.                                *)
(***************************************************************************)

\* The characters that end a generic capture: whitespace, ':', newline, the
\* quotation marks and ';'.
Enders == {9, 11, 13, 32, 58, 10, 39, 34, 59}

\* Token k was captured in S8: its first byte sent S1 there.
Generic(k) ==
    /\ CapturedBy(k) # {}
    /\ src[StartOf(k)] \notin {58, 39, 34}

\* The last byte of src captured into token k.
EndOf(k) == CHOOSE x \in CapturedBy(k) : \A y \in CapturedBy(k) : y <= x

\* get_next_token has returned a token to get_ast, which has not gone on.
JustReturned == pc \in {"first", "loop"} /\ Running /\ done

\* C29: the lexeme of a token captured in S8 is not empty and has none of
\* the characters that end the capture; the token returned, the character
\* that ended it is the byte after its last, read and not consumed, or the
\* end of the input, and is the input of the next get_next_token call.
C29_GenericCapture ==
    /\ \A k \in 1..Len(tokens) :
           Generic(k) =>
               /\ tokens[k].top > 0
               /\ tokens[k].lexeme # << >>
               /\ \A i \in 1..Len(tokens[k].lexeme) :
                      tokens[k].lexeme[i] \notin Enders
    /\ (JustReturned /\ Generic(Len(tokens))) =>
           /\ input \in Enders \cup {EOF}
           /\ input # EOF =>
                  /\ fpos = EndOf(Len(tokens)) + 1
                  /\ src[fpos] = input
                  /\ Len(fate) = fpos - 1
           /\ input = EOF => EndOf(Len(tokens)) = Len(src)
           /\ get_next_token_entry(Lexer).input = input
           /\ get_next_token_entry(Lexer).next_state = "S1"

\* A word was returned that a ':' ended: the ':' is the input.
C29_Witness ==
    /\ JustReturned
    /\ Generic(Len(tokens))
    /\ input = 58
    /\ tokens[Len(tokens)].lexeme = <<97>>

(***************************************************************************)
(* C30.  Every byte is accounted for.                                      *)
(***************************************************************************)

\* The bytes lo to hi of src that were captured, in their order.
RECURSIVE CapturedText(_, _)
CapturedText(lo, hi) ==
    IF lo > hi THEN << >>
    ELSE IF lo = hi THEN (IF Captured(lo) THEN <<src[lo]>> ELSE << >>)
    ELSE CapturedText(lo, (lo + hi) \div 2)
             \o CapturedText((lo + hi) \div 2 + 1, hi)

\* The lexemes of the tokens lo to hi that are no terminators, one after
\* the other.
RECURSIVE LexemesText(_, _)
LexemesText(lo, hi) ==
    IF lo > hi THEN << >>
    ELSE IF lo = hi
    THEN (IF IsTerminator(tokens[lo]) THEN << >> ELSE tokens[lo].lexeme)
    ELSE LexemesText(lo, (lo + hi) \div 2)
             \o LexemesText((lo + hi) \div 2 + 1, hi)

\* Byte p of src, consumed, went one of the four ways: into the lexeme of
\* a token, away as whitespace outside comments, away in a comment, or
\* into an EndOfLine token as its end of line.
Accounted(p) ==
    \/ fate[p] >= 1 /\ fate[p] <= Len(tokens) + 1
    \/ fate[p] = Ignored /\ is_whitespace(src[p]) /\ ~InComment(p)
    \/ fate[p] = Ignored /\ InComment(p)
    \/ fate[p] = TakenAsEol /\ src[p] = 10

\* The bytes consumed as ends of line, and the EndOfLine tokens made: those
\* returned, and the one in the making.
EolBytes == {p \in 1..Len(fate) : fate[p] = TakenAsEol}

EolTokens ==
    EolCount + (IF TokenMade /\ ~done /\ token.eol THEN 1 ELSE 0)

\* C30: the bytes are read one after the other, each once, and the byte
\* read last is the only one not consumed yet (none after the end of the
\* input or a read that failed); every byte consumed is
\* accounted for in one of the four ways, a captured byte in the lexeme of
\* the token it was captured for, an end of line in an EndOfLine token of
\* its own; and the scan over, every byte is consumed and the lexemes of the
\* tokens in order are the input without the bytes discarded and the
\* newlines.
C30_BytesAccounted ==
    /\ Len(fate) \in {fpos - 1, fpos}
    /\ Len(fate) = fpos => (fpos = 0 \/ input = EOF \/ ReadFailed)
    /\ \A p \in 1..Len(fate) : Accounted(p)
    /\ \A p, q \in 1..Len(fate) :
           (p < q /\ Captured(p) /\ Captured(q)) => fate[p] <= fate[q]
    /\ \A k \in Lexemes : WholeLexeme(k)
    /\ Cardinality(EolBytes) = EolTokens
    /\ Returned =>
           /\ Len(fate) = Len(src)
           /\ LexemesText(1, Len(tokens)) = CapturedText(1, Len(src))

\* "label: ; comment\n" is scanned: bytes captured, a space discarded, a
\* comment discarded and a newline consumed.
C30_Witness ==
    /\ Returned
    /\ src = LabelLine
    /\ Len(fate) = Len(src)
    /\ LexemesText(1, Len(tokens)) = <<108, 97, 98, 101, 108, 58>>
    /\ fate[7] = Ignored /\ ~InComment(7)
    /\ fate[9] = Ignored /\ InComment(9)
    /\ fate[17] = TakenAsEol

(***************************************************************************)
(* C31.  The states with one guard.                                        *)
(***************************************************************************)

\* The character the only guard of a state accepts.
GuardOf ==
    [s \in {"S2", "S3", "S4", "S5", "S6"} |->
        CASE s = "S2" -> 58
          [] s = "S3" -> 10
          [] s = "S4" -> EOF
          [] s = "S5" -> 39
          [] s = "S6" -> 34]

\* The loop of get_next_token is about to take a turn in a state with one
\* guard, and the input satisfies the guard.
GuardHolds ==
    (Scanning /\ next_state \in DOMAIN GuardOf) => input = GuardOf[next_state]

\* A turn of the loop consumes a character or changes the state; the turn
\* in S0 ends the loop, and a failure the process.
TurnAdvances ==
    Scanning =>
        \/ Len(fate') > Len(fate)
        \/ next_state' # next_state
        \/ next_state = "S0" /\ done'
        \/ failure' # NoFailure

\* C31: in S2, S3, S4, S5 and S6 the input is ':', the end of line, the end
\* of input, the single and the double quotation mark: the guard of the
\* state holds, and every turn of the loop consumes a character or changes
\* the state.
C31_NeverStuck == []GuardHolds /\ [][TurnAdvances]_vars

\* The loop is in S6 with a double quotation mark for input.
C31_Witness == Scanning /\ next_state = "S6" /\ input = 34

(***************************************************************************)
(* C32.  The cursor of ast_tokensibl.                                      *)
(***************************************************************************)

\* get_ast is about to call ast_tokensibl(tokenn, token, 0): it is in its
\* loop with a token that is no terminator, and linen has a subtree.
CallsTokensibl ==
    /\ pc = "loop" /\ Running /\ done
    /\ ~IsTerminator(token)
    /\ nodes[linen].subtree # NULL

\* C32: when get_ast calls ast_tokensibl, tokenn is assigned and is the
\* last token node of the line node linen, itself the last line node.
C32_CursorOnLastToken ==
    CallsTokensibl =>
        /\ tokenn # Unassigned
        /\ tokenn \in 1..Len(nodes)
        /\ NodeType(linen) = "NT_LINE"
        /\ linen = LineNodes[Len(LineNodes)]
        /\ tokenn = TokenNodes(linen)[Len(TokenNodes(linen))]
        /\ nodes[tokenn].sibling = NULL

\* ast_tokensibl is about to be called for the last ':' of BlankLines: the
\* file begins with two EndOfLine tokens, and two more lie between the
\* line of the cursor and the tokens before.
C32_Witness ==
    /\ CallsTokensibl
    /\ src = BlankLines
    /\ Len(tokens) = 8
    /\ tokens[1].type = "t_eol" /\ tokens[2].type = "t_eol"
    /\ tokens[5].type = "t_eol" /\ tokens[6].type = "t_eol"
    /\ nodes[tokenn].data.token = 7

(***************************************************************************)
(* C33.  The strings eval is applied to.                                   *)
(***************************************************************************)

\* The string and the base S0 has eval called with for the lexeme s of an
\* integer: by eval_bin, eval_oct, eval_dec or eval_hex, the first whose
\* recognizer accepts s.
EvalArgument(s) ==
    IF is_bin(s) THEN <<DropLast(s), 2>>
    ELSE IF is_oct(s) THEN <<DropLast(s), 8>>
    ELSE IF is_dec(s)
    THEN (IF tolowercase(CharAt(s, strlen(s) - 1)) = 100
          THEN <<DropLast(s), 10>> ELSE <<dupstr(s), 10>>)
    ELSE <<DropLast(s), 16>>

\* The integer tokens returned.
IntegerTokens == {k \in 1..Len(tokens) : tokens[k].type = "t_int"}

\* C33: for every integer token returned, the string eval was applied to
\* is not empty, get_value of each of its characters is a digit value of
\* the base, 0 to base - 1 and never -1, and intval is eval of that string.
C33_DigitsOnlyEvaluated ==
    \A k \in IntegerTokens :
        LET a == EvalArgument(tokens[k].lexeme)
        IN  /\ a[1] # << >>
            /\ \A i \in 1..Len(a[1]) : get_value(a[1][i]) \in 0..(a[2] - 1)
            /\ tokens[k].intval = eval(a[1], a[2])

\* 0Ah is returned: eval was applied to 0A in base 16.
C33_Witness ==
    /\ Returned
    /\ src = <<48, 65, 104>>
    /\ 1 \in IntegerTokens
    /\ EvalArgument(tokens[1].lexeme) = <<(<<48, 65>>), 16>>

(***************************************************************************)
(* C34.  The numeral recognizers are disjoint.                             *)
(***************************************************************************)

\* The numeral recognizers that accept the string s.
AcceptedBy(s) == {r \in NumeralRules : Accepts(r[1], s)}

\* The value the evaluator of the recognizer gives the string s.
EvalBy(recognizer, s) ==
    CASE recognizer = "is_bin" -> eval_bin(s)
      [] recognizer = "is_oct" -> eval_oct(s)
      [] recognizer = "is_dec" -> eval_dec(s)
      [] recognizer = "is_hex" -> eval_hex(s)

\* C34: no lexeme is accepted by two of is_bin, is_oct, is_dec and is_hex;
\* the token of a lexeme one of them accepts is an integer with the value
\* of that recognizer's evaluator, whatever the order of the four rules.
C34_RecognizersDisjoint ==
    \A k \in Lexemes :
        /\ Cardinality(AcceptedBy(tokens[k].lexeme)) <= 1
        /\ \A r \in AcceptedBy(tokens[k].lexeme) :
               /\ tokens[k].type = "t_int"
               /\ tokens[k].intval = EvalBy(r[1], tokens[k].lexeme)

\* 1d is returned: is_dec accepts it and no other recognizer, though d is
\* a hexadecimal digit.
C34_Witness ==
    /\ Returned
    /\ src = <<49, 100>>
    /\ AcceptedBy(tokens[1].lexeme) = {<<"is_dec", 10>>}
    /\ tokens[1].intval = 1

(***************************************************************************)
(* C35.  pop_from_lexeme.                                                  *)
(***************************************************************************)

\* C35: pop_from_lexeme called on an empty lexeme, top = 0, fails and
\* leaves top as it is; no call leaves top below 0 or reads or writes
\* before the array; and called after push_to_lexeme(c) on a lexeme that
\* is not full it returns c and leaves the token as it was before the push.
C35_PopWithinArray ==
    popped # << >> =>
        /\ (popped.pushed = << >> /\ popped.before.top = 0) =>
               /\ popped.result.failed
               /\ popped.result.token.top = 0
        /\ popped.result.token.top >= 0
        /\ ~popped.result.below
        /\ popped.pushed # << >> =>
               /\ ~popped.result.failed
               /\ <<popped.result.c>> = popped.pushed
               /\ popped.result.token = popped.before

=============================================================================
